---- MODULE Spec2Model ----
(***************************************************************************)
(* Calm Table frontend: the browser session store (lib/auth.ts), the axios *)
(* client with its refresh-on-401 interceptor (lib/api.ts), the TTL        *)
(* response cache (lib/services.ts), the cart provider and drawer, the     *)
(* booking form and the Next.js middleware.                                *)
(*                                                                         *)
(* JavaScript strings are sequences of one-character strings, so that      *)
(* startsWith, includes, encodeURIComponent and the cookie parser are      *)
(* computed character by character.                                        *)
(***************************************************************************)
EXTENDS Integers, Sequences, FiniteSets, TLC

VARIABLES
  now,            \* Date.now(), milliseconds
  localStorage,   \* window.localStorage: key -> string, or NULL when absent
  cookieJar,      \* the browser's ct_access_token cookie
  lastAuthCall,   \* the lib/auth.ts function that ran last (observation only)
  navigation,     \* the last page request and what the Next.js server answered
  requestCache,   \* lib/services.ts: Map from cache key to { data, expiresAt }
  serverVersion,  \* how many mutating requests the backend has applied
  inflight,       \* the requests of lib/services.ts that are awaiting their response
  lastReturn,     \* what the lib/services.ts call of this step did (observation only)
  fetchCalls,     \* number of cached fetch calls made so far
  refreshPromise, \* lib/api.ts: the shared in-flight refresh promise, or NoPromise
  refreshes,      \* the POST /auth/refresh/ requests made and how each settled
  calls,          \* the requests made through the shared client
  items,          \* CartProvider: the cart lines
  itemCount,      \* CartProvider: memoised sum of the quantities
  totalAmount,    \* CartProvider: memoised total, in hundredths
  isOpen,         \* CartProvider: whether the drawer is open
  submitting,     \* CartDrawer: a checkout is being submitted
  authUser,       \* AuthProvider: its user state, the signed-in user or NoUser
  orders,         \* POST /orders/ requests in flight (their payloads)
  toast,          \* the toast shown last
  routerPath,     \* the last router.push target, or NULL
  lastCheckout,   \* how the last settled checkout() ended
  currentStep,    \* BookPage: the step shown, 0 while the page is not open
  selectedDate,   \* BookPage: the chosen date
  availableSlots, \* BookPage: available_slots of the response applied last
  fullSlots,      \* BookPage: full_slots of the response applied last
  slotLoading,    \* BookPage: the loading flag of loadSlots
  selectedTimeSlot, \* BookPage: the chosen slot, '' for none
  bookSubmitting, \* BookPage: its submitting flag
  loads,          \* loadSlots calls awaiting GET /available-slots/
  reservations,   \* POST /reservations/ requests in flight (their payloads)
  serverFull,     \* the backend: the full slots of each date
  loadedFor,      \* the response loadSlots applied last for each date, or NULL
  authLoading,    \* AuthProvider: its loading state
  bootstrap,      \* AuthProvider: where bootstrapAuth stands and the token it read
  dashMounted,    \* AdminDashboardPage is mounted
  dashEffect,     \* AdminDashboardPage: runs of its effect and the exit of the last
  cartStorage,    \* window.localStorage: the cart_items entry, or NULL
  lastMount,      \* what the last CartProvider mount found and restored (observation only)
  theme,          \* ThemeProvider: its theme state
  dataTheme,      \* the data-theme attribute of the document element
  themeStorage,   \* window.localStorage: the calmtable-theme entry, or NULL
  themeMounted,   \* the mount effect of ThemeProvider has run
  lastThemeCall,  \* the last theme operation and the theme before it (observation only)
  entrypoint,     \* the entrypoint script of the backend container: its line, environment and progress
  reserved        \* per date, the server state the last returned createReservation made

authVars == <<localStorage, cookieJar, lastAuthCall>>
mwVars == <<navigation>>
cacheVars == <<requestCache, serverVersion, inflight, lastReturn, fetchCalls, reserved>>
apiVars == <<refreshPromise, refreshes, calls>>
cartVars == <<items, itemCount, totalAmount, isOpen, submitting, authUser, orders, toast,
              routerPath, lastCheckout>>
bookVars == <<currentStep, selectedDate, availableSlots, fullSlots, slotLoading,
              selectedTimeSlot, bookSubmitting, loads, reservations, serverFull, loadedFor>>
dashVars == <<authLoading, bootstrap, dashMounted, dashEffect>>
persistVars == <<cartStorage, lastMount>>
themeVars == <<theme, dataTheme, themeStorage, themeMounted, lastThemeCall>>
entrypointVars == <<entrypoint>>
vars == <<now, authVars, mwVars, cacheVars, apiVars, cartVars, bookVars, dashVars, persistVars,
          themeVars, entrypointVars>>

\* what each part of the frontend leaves alone
outsideDash == <<mwVars, cacheVars, apiVars, bookVars, items, itemCount, totalAmount, isOpen,
                 submitting, orders, lastCheckout, persistVars, themeVars, entrypointVars>>
outsideAuth == <<mwVars, cacheVars, apiVars, cartVars, bookVars, dashVars, persistVars,
                 themeVars, entrypointVars>>
outsideMw == <<cacheVars, apiVars, cartVars, bookVars, dashVars, persistVars, themeVars,
               entrypointVars>>
outsideCache == <<authVars, mwVars, apiVars, cartVars, bookVars, dashVars, persistVars,
                  themeVars, entrypointVars>>
outsideApi == <<mwVars, cacheVars, cartVars, bookVars, dashVars, persistVars, themeVars,
                entrypointVars>>
outsideCart == <<authVars, mwVars, cacheVars, apiVars, bookVars, dashVars, themeVars,
                 entrypointVars>>
outsideTheme == <<authVars, mwVars, cacheVars, apiVars, cartVars, bookVars, dashVars,
                  persistVars, entrypointVars>>
outsideEntrypoint == <<authVars, mwVars, cacheVars, apiVars, cartVars, bookVars, dashVars,
                       persistVars, themeVars>>
outsideBook == <<authVars, mwVars, apiVars, cartVars, serverVersion, inflight, lastReturn,
                 fetchCalls, reserved, dashVars, persistVars, themeVars, entrypointVars>>

----------------------------------------------------------------------------
(* Strings *)

NULL == <<"null">>

EmptyString == <<>>

RECURSIVE Flatten(_)
Flatten(ss) == IF ss = <<>> THEN <<>> ELSE Head(ss) \o Flatten(Tail(ss))

StartsWith(s, prefix) ==
  /\ Len(prefix) <= Len(s)
  /\ SubSeq(s, 1, Len(prefix)) = prefix

Includes(s, sub) ==
  \E i \in 1..(Len(s) - Len(sub) + 1) : SubSeq(s, i, i + Len(sub) - 1) = sub

\* JavaScript truthiness of a string-or-null value
Truthy(v) == v # NULL /\ v # EmptyString

\* a ?? b
Coalesce(a, b) == IF a = NULL THEN b ELSE a

----------------------------------------------------------------------------
(* encodeURIComponent / decodeURIComponent and the cookie jar *)

EncodeChar(c) ==
  CASE c = ";" -> <<"%", "3", "B">>
    [] c = "%" -> <<"%", "2", "5">>
    [] c = "=" -> <<"%", "3", "D">>
    [] OTHER   -> <<c>>

encodeURIComponent(s) == Flatten([i \in 1..Len(s) |-> EncodeChar(s[i])])

RECURSIVE decodeURIComponent(_)
decodeURIComponent(s) ==
  IF s = <<>> THEN <<>>
  ELSE IF Head(s) # "%" THEN <<Head(s)>> \o decodeURIComponent(Tail(s))
  ELSE IF Len(s) >= 3 /\ SubSeq(s, 2, 3) = <<"3", "B">>
       THEN <<";">> \o decodeURIComponent(SubSeq(s, 4, Len(s)))
  ELSE IF Len(s) >= 3 /\ SubSeq(s, 2, 3) = <<"2", "5">>
       THEN <<"%">> \o decodeURIComponent(SubSeq(s, 4, Len(s)))
  ELSE IF Len(s) >= 3 /\ SubSeq(s, 2, 3) = <<"3", "D">>
       THEN <<"=">> \o decodeURIComponent(SubSeq(s, 4, Len(s)))
  ELSE <<"\\uFFFD">>  \* URIError: malformed escape

\* The browser reads the cookie value of "name=value; attr..." up to the first ';'.
RECURSIVE CookieAttributeValue(_)
CookieAttributeValue(s) ==
  IF s = <<>> \/ Head(s) = ";" THEN <<>>
  ELSE <<Head(s)>> \o CookieAttributeValue(Tail(s))

RECURSIVE UpToSlash(_)
UpToSlash(s) ==
  IF s = <<>> \/ Head(s) = "/" THEN <<>>
  ELSE <<Head(s)>> \o UpToSlash(Tail(s))

NoCookie == [present |-> FALSE, value |-> EmptyString, expiresAt |-> 0]

\* document.cookie = `${name}=${rawValue}; Path=/; Max-Age=${maxAgeSeconds}; SameSite=Lax`
DocumentCookieAssign(rawValue, maxAgeSeconds, t) ==
  IF maxAgeSeconds <= 0
    THEN NoCookie
    ELSE [present   |-> TRUE,
          value     |-> CookieAttributeValue(rawValue \o <<";">>),
          expiresAt |-> t + maxAgeSeconds * 1000]

ACCESS_COOKIE_MAX_AGE == 60 * 60 * 24

\* setCookie without the encodeURIComponent call
setCookie_Unencoded(value, maxAgeSeconds, t) ==
  DocumentCookieAssign(value, maxAgeSeconds, t)

setCookie(value, maxAgeSeconds, t) ==
  DocumentCookieAssign(encodeURIComponent(value), maxAgeSeconds, t)

clearCookie == DocumentCookieAssign(EmptyString, 0, 0)

\* The cookie the browser sends with a request at time t: NULL once Max-Age elapsed.
CookieSent(jar, t) ==
  IF jar.present /\ t < jar.expiresAt THEN decodeURIComponent(jar.value) ELSE NULL

----------------------------------------------------------------------------
(* lib/auth.ts *)

ACCESS_TOKEN_KEY == "access_token"
REFRESH_TOKEN_KEY == "refresh_token"
USER_KEY == "auth_user"
StorageKeys == {ACCESS_TOKEN_KEY, REFRESH_TOKEN_KEY, USER_KEY}

Users == {[id |-> "1", is_staff |-> "f"], [id |-> "2", is_staff |-> "t"]}

\* JSON.stringify(user), reduced to the fields the frontend branches on
JSONstringifyUser(u) == <<"{", u.id, u.is_staff, "}">>

\* getStoredUser: null for an absent or empty entry, for text JSON.parse rejects
\* and for a parsed value that is not an object
ParseStoredUser(raw) ==
  IF ~Truthy(raw) THEN NULL
  ELSE IF Len(raw) = 4 /\ raw[1] = "{" /\ raw[4] = "}"
            /\ [id |-> raw[2], is_staff |-> raw[3]] \in Users
       THEN raw
       ELSE NULL

getAccessToken == Coalesce(localStorage[ACCESS_TOKEN_KEY], EmptyString)
getRefreshToken == Coalesce(localStorage[REFRESH_TOKEN_KEY], EmptyString)
getStoredUser == ParseStoredUser(localStorage[USER_KEY])

StoreSession(ls, access, refresh, user) ==
  [ls EXCEPT ![ACCESS_TOKEN_KEY] = access,
             ![REFRESH_TOKEN_KEY] = refresh,
             ![USER_KEY] = JSONstringifyUser(user)]

StoreAccessToken(ls, access) == [ls EXCEPT ![ACCESS_TOKEN_KEY] = access]

\* clearAuthSession that leaves the profile entry behind
RemoveSession_KeepsUser(ls) ==
  [ls EXCEPT ![ACCESS_TOKEN_KEY] = NULL, ![REFRESH_TOKEN_KEY] = NULL]

RemoveSession(ls) ==
  [ls EXCEPT ![ACCESS_TOKEN_KEY] = NULL, ![REFRESH_TOKEN_KEY] = NULL, ![USER_KEY] = NULL]

UpdateAccessTokenCookie(access, t) == setCookie(access, ACCESS_COOKIE_MAX_AGE, t)

setAuthSession(access, refresh, user) ==
  /\ localStorage' = StoreSession(localStorage, access, refresh, user)
  /\ cookieJar' = setCookie(access, ACCESS_COOKIE_MAX_AGE, now)
  /\ lastAuthCall' = "setAuthSession"

updateAccessToken(access) ==
  /\ localStorage' = StoreAccessToken(localStorage, access)
  /\ cookieJar' = UpdateAccessTokenCookie(access, now)
  /\ lastAuthCall' = "updateAccessToken"

clearAuthSession ==
  /\ localStorage' = RemoveSession(localStorage)
  /\ cookieJar' = clearCookie
  /\ lastAuthCall' = "clearAuthSession"

----------------------------------------------------------------------------
(* middleware.ts *)

Str_book == <<"b", "o", "o", "k">>
Str_books == <<"b", "o", "o", "k", "s">>
Str_my_reservations ==
  <<"m", "y", "-", "r", "e", "s", "e", "r", "v", "a", "t", "i", "o", "n", "s">>
Str_profile == <<"p", "r", "o", "f", "i", "l", "e">>
Str_profiles == <<"p", "r", "o", "f", "i", "l", "e", "s">>
Str_menu == <<"m", "e", "n", "u">>
Str_login == <<"l", "o", "g", "i", "n">>
Str_x == <<"x">>

Slash(seg) == <<"/">> \o seg

\* const protectedPrefixes = ['/book', '/my-reservations', '/profile']
protectedPrefixes == {Slash(Str_book), Slash(Str_my_reservations), Slash(Str_profile)}

\* path-to-regexp: '/p' matches the path '/p' alone, '/p/:path*' matches '/p'
\* and every path below it
MatchesExact(pattern, pathname) == pathname = pattern
MatchesPathStar(pattern, pathname) ==
  \/ pathname = pattern
  \/ StartsWith(pathname, pattern \o <<"/">>)

\* config.matcher: ['/book', '/book/:path*', '/my-reservations/:path*', '/profile/:path*']
matcher(pathname) ==
  \/ MatchesExact(Slash(Str_book), pathname)
  \/ MatchesPathStar(Slash(Str_book), pathname)
  \/ MatchesPathStar(Slash(Str_my_reservations), pathname)
  \/ MatchesPathStar(Slash(Str_profile), pathname)

isProtected(pathname) == \E prefix \in protectedPrefixes : StartsWith(pathname, prefix)

ResponseNext == [kind |-> "next", location |-> EmptyString, next |-> NULL]
ResponseRedirect(location, nextParam) ==
  [kind |-> "redirect", location |-> location, next |-> nextParam]

\* middleware that only tests whether the cookie exists
middleware_AnyCookiePasses(pathname, token) ==
  IF ~isProtected(pathname) THEN ResponseNext
  ELSE IF token # NULL THEN ResponseNext
  ELSE ResponseRedirect(Slash(Str_login), pathname)

\* middleware(request); token is request.cookies.get('ct_access_token')?.value
middleware(pathname, token) ==
  IF ~isProtected(pathname) THEN ResponseNext
  ELSE IF Truthy(token) THEN ResponseNext
  ELSE ResponseRedirect(Slash(Str_login), pathname)

\* Next.js runs the middleware on the requests config.matcher selects and lets
\* every other request through
ServeRequest(pathname, token) ==
  IF matcher(pathname) THEN middleware(pathname, token) ELSE ResponseNext

NoNavigation == [pathname |-> NULL, token |-> NULL, response |-> ResponseNext]

MwVarsInit == navigation = NoNavigation

----------------------------------------------------------------------------
(* lib/services.ts: the response cache *)

DEFAULT_CACHE_TTL_MS == 60000
SLOT_CACHE_TTL_MS == 20000
REVIEWS_CACHE_TTL_MS == 30000

Str_menu_colon == <<"m", "e", "n", "u", ":">>
Str_menu_featured == <<"m", "e", "n", "u", ":", "f", "e", "a", "t", "u", "r", "e", "d">>
Str_menu_best_ordered == <<"m", "e", "n", "u", ":", "b", "e", "s", "t", "-", "o", "r", "d", "e", "r", "e", "d">>
Str_slots_colon == <<"s", "l", "o", "t", "s", ":">>
Str_reviews_colon == <<"r", "e", "v", "i", "e", "w", "s", ":">>
Str_all == <<"a", "l", "l">>
Str_7 == <<"7">>
Str_mains == <<"m", "a", "i", "n", "s">>
Str_vegan == <<"v", "e", "g", "a", "n">>
Str_gluten_free == <<"g", "l", "u", "t", "e", "n", "-", "f", "r", "e", "e">>
Date1 == <<"2", "0", "2", "6", "-", "1", "1", "-", "0", "1">>
Date2 == <<"2", "0", "2", "6", "-", "1", "1", "-", "0", "2">>

\* requestCache.get(key) of a key that was never set, or was deleted
NoEntry == [data |-> NULL, expiresAt |-> -1]

\* the keys the Map can hold
RECURSIVE Join(_, _)
Join(parts, sep) ==
  IF parts = <<>> THEN <<>>
  ELSE IF Len(parts) = 1 THEN Head(parts)
  ELSE Head(parts) \o sep \o Join(Tail(parts), sep)

\* Array.prototype.sort() on strings, by UTF-16 code units; the tags in use differ
\* in their first character
CodeUnit(c) == CASE c = "g" -> 103 [] c = "v" -> 118 [] OTHER -> 0
RECURSIVE InsertSorted(_, _)
InsertSorted(x, sorted) ==
  IF sorted = <<>> THEN <<x>>
  ELSE IF CodeUnit(x[1]) <= CodeUnit(Head(sorted)[1]) THEN <<x>> \o sorted
  ELSE <<Head(sorted)>> \o InsertSorted(x, Tail(sorted))
RECURSIVE Sort(_)
Sort(xs) == IF xs = <<>> THEN <<>> ELSE InsertSorted(Head(xs), Sort(Tail(xs)))

\* menuCacheKey(filters): `menu:${category}:${tags}`
menuCacheKey(category, dietaryTags) ==
  Str_menu_colon \o Coalesce(category, EmptyString) \o <<":">> \o Join(Sort(dietaryTags), <<",">>)

slotsCacheKey(date) == Str_slots_colon \o date

\* `reviews:${menuItemId ?? 'all'}`
reviewsCacheKey(menuItemId) == Str_reviews_colon \o Coalesce(menuItemId, Str_all)

\* readCache that never looks at expiresAt
readCacheResult_IgnoresExpiry(cache, key, t) ==
  IF cache[key] = NoEntry THEN NULL ELSE cache[key].data

\* readCache(key), the value returned: null on a miss or an expired entry
readCacheResult(cache, key, t) ==
  IF cache[key] = NoEntry THEN NULL
  ELSE IF t > cache[key].expiresAt THEN NULL
  ELSE cache[key].data

\* readCache(key), the Map afterwards: an expired entry is deleted
readCacheEffect(cache, key, t) ==
  IF cache[key] # NoEntry /\ t > cache[key].expiresAt
    THEN [cache EXCEPT ![key] = NoEntry]
    ELSE cache

\* writeCache(key, data, ttlMs)
writeCache(cache, key, data, ttlMs, t) ==
  [cache EXCEPT ![key] = [data |-> data, expiresAt |-> t + ttlMs]]

\* clearCacheByPrefix(prefix)
clearCacheByPrefix(cache, prefix) ==
  [key \in DOMAIN cache |-> IF StartsWith(key, prefix) THEN NoEntry ELSE cache[key]]

\* response.data of a GET handled while the server held version v
Data(v) == <<"data", v>>

\* the server state a response was made from
Version(data) == data[2]

\* the cached fetch functions: their cache key and TTL
FetchCall(fn, key, ttlMs) == [fn |-> fn, key |-> key, ttlMs |-> ttlMs]
fetchFeaturedMenuItems == FetchCall("fetchFeaturedMenuItems", Str_menu_featured, DEFAULT_CACHE_TTL_MS)
fetchBestOrderedMenuItems ==
  FetchCall("fetchBestOrderedMenuItems", Str_menu_best_ordered, DEFAULT_CACHE_TTL_MS)
fetchMenuItems(category, dietaryTags) ==
  FetchCall("fetchMenuItems", menuCacheKey(category, dietaryTags), DEFAULT_CACHE_TTL_MS)
fetchAvailableSlots(date) == FetchCall("fetchAvailableSlots", slotsCacheKey(date), SLOT_CACHE_TTL_MS)
fetchReviews(menuItemId) == FetchCall("fetchReviews", reviewsCacheKey(menuItemId), REVIEWS_CACHE_TTL_MS)

\* createOrder clearing every menu entry
ClearedPrefixes_OrderClearsMenu(call) ==
  CASE call.fn = "createReservation" -> <<slotsCacheKey(call.key)>>
    [] call.fn = "createReview"      -> <<Str_reviews_colon, Str_menu_colon>>
    [] call.fn = "deleteReview"      -> <<Str_reviews_colon, Str_menu_colon>>
    [] call.fn = "createOrder"       -> <<Str_menu_colon>>

\* the prefixes a mutating call clears once its request succeeded
ClearedPrefixes(call) ==
  CASE call.fn = "createReservation" -> <<slotsCacheKey(call.key)>>
    [] call.fn = "createReview"      -> <<Str_reviews_colon, Str_menu_colon>>
    [] call.fn = "deleteReview"      -> <<Str_reviews_colon, Str_menu_colon>>
    [] call.fn = "createOrder"       -> <<Str_menu_best_ordered>>

RECURSIVE clearCacheByPrefixes(_, _)
clearCacheByPrefixes(cache, prefixes) ==
  IF prefixes = <<>> THEN cache
  ELSE clearCacheByPrefixes(clearCacheByPrefix(cache, Head(prefixes)), Tail(prefixes))

IdleSlot == [fn |-> "none", key |-> EmptyString, ttlMs |-> 0, stage |-> "idle",
             ok |-> FALSE, data |-> NULL]
NoFetch == [fn |-> "none", key |-> EmptyString, source |-> "none", data |-> NULL]

----------------------------------------------------------------------------
(* lib/api.ts: the axios client, its interceptors and the single-flight refresh *)

Str_auth_refresh == <<"/", "a", "u", "t", "h", "/", "r", "e", "f", "r", "e", "s", "h", "/">>
Str_url_orders == <<"/", "o", "r", "d", "e", "r", "s", "/">>
Str_url_refresh_probe == <<"/", "x", "/", "a", "u", "t", "h", "/", "r", "e", "f", "r", "e", "s", "h", "/">>

STATUS_OK == 200
STATUS_UNAUTHORIZED == 401
STATUS_SERVER_ERROR == 500
\* error.response is undefined: timeout or no connection
NO_RESPONSE == 0

NoPromise == 0

\* JSON values of an error body, as far as the response handler looks at them
Undefined == [kind |-> "undefined", text |-> "", elems |-> <<>>]
JsonNull == [kind |-> "null", text |-> "", elems |-> <<>>]
JsonString(text) == [kind |-> "string", text |-> text, elems |-> <<>>]
JsonArray(elems) == [kind |-> "array", text |-> "", elems |-> elems]
StringElement(text) == [type |-> "string", text |-> text]
NumberElement(text) == [type |-> "number", text |-> text]

\* error.response?.data: absent when the request got no response, otherwise
\* the fields of the body in their order
NoPayload == [present |-> FALSE, fields |-> <<>>]
Payload(fields) == [present |-> TRUE, fields |-> fields]

\* payload?.key
Member(payload, key) ==
  IF \E i \in DOMAIN payload.fields : payload.fields[i].key = key
  THEN LET i == CHOOSE i \in DOMAIN payload.fields :
                  /\ payload.fields[i].key = key
                  /\ \A j \in 1..(i - 1) : payload.fields[j].key # key
       IN  payload.fields[i].value
  ELSE Undefined

\* value?.[0]
FirstElement(value) ==
  IF value.kind = "array" /\ Len(value.elems) > 0 THEN JsonString(value.elems[1].text)
  ELSE Undefined

\* Array.isArray(value) && value.length > 0 && typeof value[0] === 'string'
IsFieldError(value) ==
  value.kind = "array" /\ Len(value.elems) > 0 /\ value.elems[1].type = "string"

\* Object.values(payload).find(...), null without a payload
FirstFieldError(payload) ==
  IF \E i \in DOMAIN payload.fields : IsFieldError(payload.fields[i].value)
  THEN LET i == CHOOSE i \in DOMAIN payload.fields :
                  /\ IsFieldError(payload.fields[i].value)
                  /\ \A j \in 1..(i - 1) : ~IsFieldError(payload.fields[j].value)
       IN  payload.fields[i].value
  ELSE Undefined

\* a ?? b on JSON values
Nullish(value) == value.kind \in {"undefined", "null"}

\* the message that skips payload.message
ErrorMessage_SkipsMessage(payload, transportMessage) ==
  IF ~Nullish(Member(payload, "detail")) THEN Member(payload, "detail").text
  ELSE IF ~Nullish(FirstElement(Member(payload, "non_field_errors")))
  THEN FirstElement(Member(payload, "non_field_errors")).text
  ELSE IF ~Nullish(FirstElement(FirstFieldError(payload)))
  THEN FirstElement(FirstFieldError(payload)).text
  ELSE transportMessage

\* payload?.detail ?? payload?.message ?? payload?.non_field_errors?.[0]
\*   ?? firstFieldError[0] ?? error.message
ErrorMessage(payload, transportMessage) ==
  IF ~Nullish(Member(payload, "detail")) THEN Member(payload, "detail").text
  ELSE IF ~Nullish(Member(payload, "message")) THEN Member(payload, "message").text
  ELSE IF ~Nullish(FirstElement(Member(payload, "non_field_errors")))
  THEN FirstElement(Member(payload, "non_field_errors")).text
  ELSE IF ~Nullish(FirstElement(FirstFieldError(payload)))
  THEN FirstElement(FirstFieldError(payload)).text
  ELSE transportMessage

\* Promise.reject(new Error(message)) as kept in a call record
Rejection(message) == <<message>>
NoRejection == <<>>

\* the AxiosError of a call that has not failed
NoError == [status |-> NO_RESPONSE, payload |-> NoPayload, message |-> ""]

IdleCall == [pc |-> "idle", url |-> EmptyString, retry |-> FALSE, authorization |-> NULL,
             awaiting |-> NoPromise, sends |-> 0, status |-> <<>>, error |-> NoError,
             rejection |-> NoRejection]
UnusedRefresh == [state |-> "unused", sent |-> NULL, value |-> NULL]

\* JSON.stringify(undefined) as stored by setItem: text JSON.parse rejects
Str_undefined == <<"u", "n", "d", "e", "f", "i", "n", "e", "d">>

\* the request interceptor: a truthy stored token replaces the Authorization header
RequestInterceptor(authorization, storedToken) ==
  IF Truthy(storedToken) THEN storedToken ELSE authorization

\* the response interceptor never asks whether the request was already retried
ShouldRefresh_IgnoresRetry(statusCode, retry, url) ==
  /\ statusCode = STATUS_UNAUTHORIZED
  /\ ~Includes(url, Str_auth_refresh)

\* statusCode === 401 && originalRequest && !originalRequest._retry
\*   && !originalRequest.url?.includes('/auth/refresh/')
ShouldRefresh(statusCode, retry, url) ==
  /\ statusCode = STATUS_UNAUTHORIZED
  /\ ~retry
  /\ ~Includes(url, Str_auth_refresh)

\* refreshAccessToken that always starts a request of its own
JoinsPendingRefresh_Never(promise) == FALSE

\* if (refreshPromise) return refreshPromise
JoinsPendingRefresh(promise) == promise # NoPromise

\* a .then callback that stores the tokens whether a profile is persisted or not
RefreshThenStorage_Always(ls, sentRefresh, access, returnedRefresh) ==
  StoreAccessToken([ls EXCEPT ![REFRESH_TOKEN_KEY] = Coalesce(returnedRefresh, sentRefresh)],
                   access)

\* the .then callback of the refresh request: the session store afterwards
RefreshThenStorage(ls, sentRefresh, access, returnedRefresh) ==
  IF ParseStoredUser(ls[USER_KEY]) # NULL
    THEN StoreAccessToken([ls EXCEPT ![REFRESH_TOKEN_KEY] = Coalesce(returnedRefresh, sentRefresh)],
                          access)
    ELSE ls

RefreshThenCookie(ls, jar, access, t) ==
  IF ParseStoredUser(ls[USER_KEY]) # NULL THEN UpdateAccessTokenCookie(access, t) ELSE jar

----------------------------------------------------------------------------
(* components/cart-provider.tsx and components/cart-drawer.tsx *)

DigitValue(ch) ==
  CASE ch = "0" -> 0 [] ch = "1" -> 1 [] ch = "2" -> 2 [] ch = "3" -> 3 [] ch = "4" -> 4
    [] ch = "5" -> 5 [] ch = "6" -> 6 [] ch = "7" -> 7 [] ch = "8" -> 8 [] ch = "9" -> 9

RECURSIVE ParseDigits(_)
ParseDigits(digits) ==
  IF digits = <<>> THEN 0
  ELSE 10 * ParseDigits(SubSeq(digits, 1, Len(digits) - 1)) + DigitValue(digits[Len(digits)])

PointAt(text) ==
  IF \E i \in 1..Len(text) : text[i] = "."
  THEN CHOOSE i \in 1..Len(text) : text[i] = "." /\ \A j \in 1..(i - 1) : text[j] # "."
  ELSE Len(text) + 1

\* Number(item.price) for the decimal strings the API serialises ("250.50"),
\* counted in hundredths so that the arithmetic stays in the integers
Number(price) ==
  LET point == PointAt(price)
      whole == SubSeq(price, 1, point - 1)
      fraction == SubSeq(price, point + 1, Len(price))
      hundredths == SubSeq(fraction \o <<"0", "0">>, 1, 2)
  IN  100 * ParseDigits(whole) + ParseDigits(hundredths)

\* a cart line of the given menu item with quantity 1
NewCartItem(item) == [menu_item_id |-> item.id, price |-> item.price, quantity |-> 1]

InCart(current, menuItemId) == \E i \in 1..Len(current) : current[i].menu_item_id = menuItemId

\* the state updater of addItem
addItem(current, item) ==
  IF InCart(current, item.id)
  THEN [i \in 1..Len(current) |->
          IF current[i].menu_item_id = item.id
          THEN [current[i] EXCEPT !.quantity = @ + 1]
          ELSE current[i]]
  ELSE Append(current, NewCartItem(item))

\* current.filter((item) => item.menu_item_id !== menuItemId)
removeItem(current, menuItemId) ==
  SelectSeq(current, LAMBDA entry : entry.menu_item_id # menuItemId)

updateQuantity(current, menuItemId, quantity) ==
  IF quantity <= 0 THEN removeItem(current, menuItemId)
  ELSE [i \in 1..Len(current) |->
          IF current[i].menu_item_id = menuItemId
          THEN [current[i] EXCEPT !.quantity = quantity]
          ELSE current[i]]

clearCart == <<>>

\* the order lines checkout builds from the cart
CheckoutPayload_WithoutQuantities(current) ==
  [i \in 1..Len(current) |-> [menu_item_id |-> current[i].menu_item_id, quantity |-> 1]]

CheckoutPayload(current) ==
  [i \in 1..Len(current) |->
     [menu_item_id |-> current[i].menu_item_id, quantity |-> current[i].quantity]]

\* the reducer of totalAmount
LineAmount_IgnoresQuantity(sum, item) == sum + Number(item.price)

LineAmount(sum, item) == sum + Number(item.price) * item.quantity

\* the reducer of itemCount
LineCount(sum, item) == sum + item.quantity

\* items.reduce((sum, item) => sum + item.quantity, 0), left to right
RECURSIVE ItemCountOf(_)
ItemCountOf(current) ==
  IF current = <<>> THEN 0
  ELSE LineCount(ItemCountOf(SubSeq(current, 1, Len(current) - 1)), current[Len(current)])

\* items.reduce((sum, item) => sum + Number(item.price) * item.quantity, 0)
RECURSIVE TotalAmountOf(_)
TotalAmountOf(current) ==
  IF current = <<>> THEN 0
  ELSE LineAmount(TotalAmountOf(SubSeq(current, 1, Len(current) - 1)), current[Len(current)])

Toast_CartEmpty == "Your cart is empty."
Toast_SignIn == "Please sign in as a customer to checkout."
Toast_Staff == "Staff accounts cannot checkout. Use a customer account."
Toast_OrderPlaced == "Order placed successfully."
Toast_OrderError == "error.message"
NoToast == "none"

Str_login_next_menu ==
  <<"/", "l", "o", "g", "i", "n", "?", "n", "e", "x", "t", "=", "/", "m", "e", "n", "u">>

\* AuthProvider's user state when nobody is signed in (user === null)
NoUser == [id |-> "null", is_staff |-> "null"]

\* isAuthenticated: Boolean(user)
IsAuthenticated(usr) == usr # NoUser

\* Boolean(user?.is_staff)
IsStaff(usr) == usr # NoUser /\ usr.is_staff = "t"

\* disabled={submitting || items.length === 0 || !isAuthenticated || Boolean(user?.is_staff)}
CheckoutDisabled_IgnoresSubmitting(isSubmitting, current, usr) ==
  Len(current) = 0 \/ ~IsAuthenticated(usr) \/ IsStaff(usr)

CheckoutDisabled(isSubmitting, current, usr) ==
  isSubmitting \/ Len(current) = 0 \/ ~IsAuthenticated(usr) \/ IsStaff(usr)

\* handleCheckout up to its try block: what it shows and whether it goes on
\* to call checkout()
handleCheckout(current, usr) ==
  IF Len(current) = 0
  THEN [toast |-> Toast_CartEmpty, close |-> FALSE, push |-> NULL, submit |-> FALSE]
  ELSE IF ~IsAuthenticated(usr)
  THEN [toast |-> Toast_SignIn, close |-> TRUE, push |-> Str_login_next_menu,
        submit |-> FALSE]
  ELSE IF IsStaff(usr)
  THEN [toast |-> Toast_Staff, close |-> FALSE, push |-> NULL, submit |-> FALSE]
  ELSE [toast |-> NoToast, close |-> FALSE, push |-> NULL, submit |-> TRUE]

NoCheckout == [kind |-> "none", items |-> <<>>]

----------------------------------------------------------------------------
(* The booking form (BookPage): slot loading and submission *)

\* the restaurant's time slots
Slots == {"18:00", "19:00"}

\* GET /available-slots/?date=...: every slot is either available or full
AvailableSlotsResponse(date, full) == <<"slots", date, Slots \ full, full>>

available_slots(response) == response[3]

full_slots(response) == response[4]

NoSlot == ""

\* what loadSlots reads and writes: the page's slot state, the loads under
\* way, the response cache and the response loaded last for each date
Page ==
  [availableSlots |-> availableSlots, fullSlots |-> fullSlots,
   selectedTimeSlot |-> selectedTimeSlot, slotLoading |-> slotLoading,
   loads |-> loads, cache |-> requestCache, loaded |-> loadedFor]

SetPage(page) ==
  /\ availableSlots' = page.availableSlots
  /\ fullSlots' = page.fullSlots
  /\ selectedTimeSlot' = page.selectedTimeSlot
  /\ slotLoading' = page.slotLoading
  /\ loads' = page.loads
  /\ requestCache' = page.cache
  /\ loadedFor' = page.loaded

\* loadSlots after the await: the response is shown, the slot its closure
\* holds is deselected when the response does not list it as available, and
\* finally the loading flag is reset
ApplyResponse(page, load, response) ==
  [page EXCEPT
     !.availableSlots = available_slots(response),
     !.fullSlots = full_slots(response),
     !.selectedTimeSlot =
        IF load.slot # NoSlot /\ load.slot \notin available_slots(response)
        THEN NoSlot ELSE @,
     !.slotLoading = FALSE,
     !.loaded = [@ EXCEPT ![load.date] = response]]

\* the effect on [selectedDate, selectedTimeSlot]: loadSlots() starts with
\* the date and slot of this render; a cached response is applied at once,
\* otherwise the request is under way
RECURSIVE RunEffect(_, _, _)
RunEffect(page, date, t) ==
  LET load == [date |-> date, slot |-> page.selectedTimeSlot]
      key == slotsCacheKey(date)
      cached == readCacheResult(page.cache, key, t)
      read == [page EXCEPT !.cache = readCacheEffect(page.cache, key, t)]
  IN  IF cached # NULL
      THEN LET applied == ApplyResponse(read, load, cached)
           IN  IF applied.selectedTimeSlot # load.slot
               THEN RunEffect(applied, date, t)
               ELSE applied
      ELSE [read EXCEPT !.slotLoading = TRUE, !.loads = Append(@, load)]

----------------------------------------------------------------------------
(* components/auth-provider.tsx and app/admin-dashboard/page.tsx *)

Toast_StaffRequired == "Staff access required."

Str_login_next_admin_dashboard ==
  <<"/", "l", "o", "g", "i", "n", "?", "n", "e", "x", "t", "=", "/", "a", "d", "m", "i", "n",
    "-", "d", "a", "s", "h", "b", "o", "a", "r", "d">>

Str_home == <<"/">>

\* the profile getStoredUser builds from the stored text, NoUser for null
StoredUser(raw) ==
  IF ParseStoredUser(raw) = NULL THEN NoUser ELSE [id |-> raw[2], is_staff |-> raw[3]]

\* bootstrapAuth before anything ran, and the state of its awaits afterwards
BootstrapStart == [pc |-> "start", token |-> EmptyString]

\* the dependency array of the dashboard effect (router is stable)
DashboardDeps(loading, usr) == <<IsAuthenticated(usr), loading, IsStaff(usr)>>

\* the dashboard effect without its last guard
DashboardEffect_AnyProfile(loading, usr) ==
  IF ~loading /\ ~IsAuthenticated(usr) THEN "login"
  ELSE IF ~loading /\ IsAuthenticated(usr) /\ ~IsStaff(usr) THEN "home"
  ELSE IF ~IsAuthenticated(usr) THEN "idle"
  ELSE "fetch"

\* the dashboard effect: which of its four exits a run takes
DashboardEffect(loading, usr) ==
  IF ~loading /\ ~IsAuthenticated(usr) THEN "login"
  ELSE IF ~loading /\ IsAuthenticated(usr) /\ ~IsStaff(usr) THEN "home"
  ELSE IF ~IsStaff(usr) THEN "idle"
  ELSE "fetch"

NoDashEffect == [runs |-> 0, outcome |-> "none"]

\* JSON text of the cart, reduced to the fields the model keeps and written
\* without field names: [{1,"1500.00",2},{2,"250.50",1}]
DigitChar(n) == <<"0", "1", "2", "3", "4", "5", "6", "7", "8", "9">>[n + 1]

IsDigit(ch) == ch \in {"0", "1", "2", "3", "4", "5", "6", "7", "8", "9"}

JSONstringifyItem(item) ==
  <<"{", DigitChar(item.menu_item_id), ",", "\"">> \o item.price
    \o <<"\"", ",", DigitChar(item.quantity), "}">>

\* JSON.stringify(items)
JSONstringifyItems(current) ==
  <<"[">> \o Join([i \in 1..Len(current) |-> JSONstringifyItem(current[i])], <<",">>) \o <<"]">>

\* what JSON.parse does with a text: the value, or ok FALSE for a SyntaxError
JSONSyntaxError == [ok |-> FALSE, value |-> <<>>]

\* the index of the first quote at or after i, 0 if there is none
QuoteFrom(text, i) ==
  IF \E j \in i..Len(text) : text[j] = "\""
  THEN CHOOSE j \in i..Len(text) : text[j] = "\"" /\ \A k \in i..(j - 1) : text[k] # "\""
  ELSE 0

\* the elements of the array from index i on, an element being expected there
RECURSIVE JSONparseElements(_, _, _)
JSONparseElements(text, i, parsed) ==
  LET close == QuoteFrom(text, i + 4)
      next == close + 4
  IN  IF \/ i + 3 > Len(text)
         \/ text[i] # "{" \/ ~IsDigit(text[i + 1]) \/ text[i + 2] # "," \/ text[i + 3] # "\""
         \/ close = 0 \/ next > Len(text)
         \/ text[close + 1] # "," \/ ~IsDigit(text[close + 2]) \/ text[close + 3] # "}"
      THEN JSONSyntaxError
      ELSE LET item == [menu_item_id |-> DigitValue(text[i + 1]),
                        price |-> SubSeq(text, i + 4, close - 1),
                        quantity |-> DigitValue(text[close + 2])]
           IN  IF text[next] = "]" /\ next = Len(text)
               THEN [ok |-> TRUE, value |-> Append(parsed, item)]
               ELSE IF text[next] = ","
               THEN JSONparseElements(text, next + 1, Append(parsed, item))
               ELSE JSONSyntaxError

\* JSON.parse(raw) as CartItem[]
JSONparseItems(text) ==
  IF Len(text) < 2 \/ text[1] # "[" THEN JSONSyntaxError
  ELSE IF Len(text) = 2 THEN (IF text[2] = "]" THEN [ok |-> TRUE, value |-> <<>>]
                              ELSE JSONSyntaxError)
  ELSE JSONparseElements(text, 2, <<>>)

\* the restore effect: the setItems calls it makes, in order
RestoreEffect(raw) ==
  IF ~Truthy(raw) THEN <<>>
  ELSE IF JSONparseItems(raw).ok THEN <<JSONparseItems(raw).value>>
  ELSE <<<<>>>>

\* the persist effect of a render with the given items: the entry it writes
PersistEffect(current) == JSONstringifyItems(current)

\* Mounting CartProvider over a stored entry: the first render has items = [],
\* its two effects run in order, and under React's Strict Mode (development
\* builds) run a second time before the queued state updates are rendered;
\* then the last queued update is rendered and the persist effect runs again.
\* The result is the items and the entry once the effects have run.
MountCartProvider(raw, strictMode) ==
  LET first == RestoreEffect(raw)
      stored == PersistEffect(<<>>)
      queue == IF strictMode THEN first \o RestoreEffect(stored) ELSE first
      rendered == IF queue = <<>> THEN <<>> ELSE queue[Len(queue)]
  IN  [items |-> rendered,
       storage |-> IF queue = <<>> THEN stored ELSE PersistEffect(rendered)]

\* a text JSON.parse rejects
Str_not_json == <<"[", "{">>

\* what a mount found under cart_items
FoundEntry(raw) ==
  IF ~Truthy(raw) THEN "absent" ELSE IF JSONparseItems(raw).ok THEN "list" ELSE "invalid"

NoMount == [n |-> 0, found |-> "none", lines |-> 0, restored |-> 0]

----------------------------------------------------------------------------
(* components/theme-provider.tsx and the inline script of app/layout.tsx *)

Str_dark == <<"d", "a", "r", "k">>
Str_light == <<"l", "i", "g", "h", "t">>
Str_system == <<"s", "y", "s", "t", "e", "m">>

\* storedTheme === 'light' ? 'light' : 'dark'
StoredThemeMode(storedTheme) == IF storedTheme = Str_light THEN Str_light ELSE Str_dark

\* a toggle that never leaves the dark theme
ToggledTheme_StaysDark(current) == Str_dark

\* theme === 'dark' ? 'light' : 'dark'
ToggledTheme(current) == IF current = Str_dark THEN Str_light ELSE Str_dark

NoThemeCall == [n |-> 0, op |-> "none", arg |-> Str_dark, before |-> Str_dark]

----------------------------------------------------------------------------
(* The container entrypoint of the backend, in its two versions *)

Str_True == <<"T", "r", "u", "e">>
Str_False == <<"F", "a", "l", "s", "e">>

\* ${NAME:-word}: word when NAME is unset or empty
ParameterDefault(value, word) == IF value = NULL \/ value = EmptyString THEN word ELSE value

\* for _ in range(60)
WAIT_ATTEMPTS == 60

\* [ "${USE_SQLITE:-True}" != "True" ]
WaitsForPostgres(environment) == ParameterDefault(environment.USE_SQLITE, Str_True) # Str_True

\* [ "${CREATE_SUPERUSER:-True}" = "True" ], second version only
CreatesSuperuser(version, environment) ==
  version = 2 /\ ParameterDefault(environment.CREATE_SUPERUSER, Str_True) = Str_True

\* the commands after the wait, in the order of the script
EntrypointSteps(version, environment) ==
  IF version = 1 THEN <<"migrate", "seed_data", "exec">>
  ELSE IF CreatesSuperuser(version, environment)
  THEN <<"migrate", "collectstatic", "seed_data", "create_superuser", "exec">>
  ELSE <<"migrate", "collectstatic", "seed_data", "exec">>

\* a script without set -e goes on after a failed command
AfterFailure_GoesOn(steps, done) == steps[done + 2]

\* set -e: the shell exits when a command fails
AfterFailure(steps, done) == "exited"

NotStarted ==
  [pc |-> "unstarted", version |-> 1,
   environment |-> [USE_SQLITE |-> NULL, CREATE_SUPERUSER |-> NULL],
   attempts |-> 0, sleeps |-> 0, connected |-> FALSE, ran |-> <<>>, failed |-> FALSE]

----------------------------------------------------------------------------
(* Bounds and input sets *)

\* tokens the server may issue; one needs escaping in a cookie, one is empty
TokenValues == {<<"a">>, <<"b", ";", "c">>, <<"%", "=">>}
AccessInputs == TokenValues \cup {EmptyString}
RefreshInputs == {<<"r">>, <<"s">>}

MaxAuthTicks == 4
AuthTickMs == 30000000

FirstSegments ==
  {Str_book, Str_books, Str_my_reservations, Str_profile, Str_profiles,
   Str_menu, Str_login, Str_x}
NextSegments == {Str_x, Str_book}
Pathnames ==
  {<<"/">>} \cup {Slash(a) : a \in FirstSegments}
            \cup {Slash(a) \o Slash(b) : a \in FirstSegments, b \in NextSegments}

MenuFilters ==
  {[category |-> Str_mains, dietaryTags |-> <<Str_vegan, Str_gluten_free>>],
   [category |-> Str_mains, dietaryTags |-> <<Str_gluten_free, Str_vegan>>]}
Dates == {Date1, Date2}
ReviewFilters == {NULL, Str_7}

FetchCalls ==
  {fetchFeaturedMenuItems, fetchBestOrderedMenuItems}
    \cup {fetchMenuItems(f.category, f.dietaryTags) : f \in MenuFilters}
    \cup {fetchAvailableSlots(d) : d \in Dates}
    \cup {fetchReviews(m) : m \in ReviewFilters}
CacheKeys == {c.key : c \in FetchCalls}

MutatingCalls ==
  {[fn |-> "createReservation", key |-> d] : d \in Dates}
    \cup {[fn |-> fn, key |-> EmptyString] : fn \in {"createReview", "deleteReview", "createOrder"}}

MaxInflight == 2
MaxServerVersion == 1
MaxCacheTicks == 3
CacheTickMs == 30000
MaxFetchCalls == 2

Urls == {Str_url_orders, Str_url_refresh_probe}
Field(key, value) == [key |-> key, value |-> value]

Message_401 == "Request failed with status code 401"
Message_500 == "Request failed with status code 500"
Message_Network == "Network Error"

\* error bodies: every source of the message alone and shadowed by the others
ErrorBodies ==
  {Payload(<<Field("detail", JsonString("d")), Field("message", JsonString("m")),
             Field("non_field_errors", JsonArray(<<StringElement("n")>>)),
             Field("email", JsonArray(<<StringElement("e")>>))>>),
   Payload(<<Field("detail", JsonNull), Field("message", JsonString("m")),
             Field("non_field_errors", JsonArray(<<StringElement("n")>>))>>),
   Payload(<<Field("detail", JsonString(""))>>),
   Payload(<<Field("email", JsonArray(<<StringElement("e")>>)),
             Field("non_field_errors", JsonArray(<<StringElement("n"), StringElement("o")>>))>>),
   Payload(<<Field("non_field_errors", JsonArray(<<>>)),
             Field("email", JsonArray(<<StringElement("e")>>)),
             Field("name", JsonArray(<<StringElement("x")>>))>>),
   Payload(<<Field("count", JsonArray(<<NumberElement("1")>>)),
             Field("status", JsonString("error")),
             Field("email", JsonArray(<<StringElement("e"), StringElement("f")>>))>>),
   Payload(<<Field("email", JsonArray(<<>>))>>),
   Payload(<<>>)}

\* the errors a request can end with: a status with a body, or no response
AllErrors ==
  {[status |-> STATUS_UNAUTHORIZED, payload |-> body, message |-> Message_401] :
     body \in ErrorBodies}
    \cup {[status |-> STATUS_SERVER_ERROR, payload |-> body, message |-> Message_500] :
            body \in ErrorBodies}
    \cup {[status |-> NO_RESPONSE, payload |-> NoPayload, message |-> Message_Network]}

\* one error of each status
PlainErrors ==
  {[status |-> STATUS_UNAUTHORIZED, payload |-> Payload(<<Field("detail", JsonString("d"))>>),
    message |-> Message_401],
   [status |-> STATUS_SERVER_ERROR, payload |-> Payload(<<>>), message |-> Message_500],
   [status |-> NO_RESPONSE, payload |-> NoPayload, message |-> Message_Network]}

LoginAccess == <<"a">>
LoginRefresh == <<"r">>
LoginUser == [id |-> "1", is_staff |-> "f"]
RefreshedAccessTokens == {<<"n">>}
ReturnedRefreshTokens == {NULL, <<"s">>}
MaxCalls == 2
MaxRefreshes == 2

Price_1500_00 == <<"1", "5", "0", "0", ".", "0", "0">>
Price_250_50 == <<"2", "5", "0", ".", "5", "0">>
Price_99_99 == <<"9", "9", ".", "9", "9">>
MenuItems ==
  {[id |-> 1, price |-> Price_1500_00, is_available |-> TRUE],
   [id |-> 2, price |-> Price_250_50, is_available |-> TRUE],
   [id |-> 3, price |-> Price_99_99, is_available |-> FALSE]}
MaxQuantity == 2
MaxOrdersInFlight == 2

MaxLoads == 2
MaxServerFills == 1
MaxBookTicks == 1
BookTickMs == 30000

MaxDashEffects == 3

DashVarsInit ==
  /\ authLoading = TRUE
  /\ bootstrap = BootstrapStart
  /\ dashMounted = FALSE
  /\ dashEffect = NoDashEffect

MaxCartMounts == 1

PersistVarsInit ==
  /\ cartStorage = JSONstringifyItems(<<>>)
  /\ lastMount = NoMount

MaxThemeCalls == 8

ThemeVarsInit ==
  /\ theme = Str_dark
  /\ dataTheme = Str_dark
  /\ themeStorage = NULL
  /\ themeMounted = FALSE
  /\ lastThemeCall = NoThemeCall

EnvironmentValues == {NULL, EmptyString, Str_True, Str_False}

EntrypointVarsInit == entrypoint = NotStarted

BookVarsInit ==
  /\ currentStep = 0
  /\ selectedDate = Date1
  /\ availableSlots = {}
  /\ fullSlots = {}
  /\ slotLoading = FALSE
  /\ selectedTimeSlot = NoSlot
  /\ bookSubmitting = FALSE
  /\ loads = <<>>
  /\ reservations = <<>>
  /\ serverFull = [date \in Dates |-> {}]
  /\ loadedFor = [date \in Dates |-> NULL]

CartVarsInit ==
  /\ items = <<>>
  /\ itemCount = 0
  /\ totalAmount = 0
  /\ isOpen = FALSE
  /\ submitting = FALSE
  /\ authUser = NoUser
  /\ orders = <<>>
  /\ toast = NoToast
  /\ routerPath = NULL
  /\ lastCheckout = NoCheckout

ApiVarsInit ==
  /\ refreshPromise = NoPromise
  /\ refreshes = [id \in 1..MaxRefreshes |-> UnusedRefresh]
  /\ calls = [c \in 1..MaxCalls |-> IdleCall]

----------------------------------------------------------------------------
(* The session store on its own: any sequence of the three writers *)

CacheVarsInit ==
  /\ requestCache = [key \in CacheKeys |-> NoEntry]
  /\ serverVersion = 0
  /\ inflight = [s \in 1..MaxInflight |-> IdleSlot]
  /\ lastReturn = NoFetch
  /\ fetchCalls = 0
  /\ reserved = [d \in Dates |-> 0]

AuthVarsInit ==
  /\ now = 0
  /\ localStorage = [k \in StorageKeys |-> NULL]
  /\ cookieJar = NoCookie
  /\ lastAuthCall = "none"

AuthInit ==
  /\ AuthVarsInit
  /\ MwVarsInit
  /\ CacheVarsInit
  /\ ApiVarsInit
  /\ CartVarsInit
  /\ BookVarsInit
  /\ DashVarsInit
  /\ PersistVarsInit
  /\ ThemeVarsInit
  /\ EntrypointVarsInit

AuthSetSession ==
  \E a \in AccessInputs, r \in RefreshInputs, u \in Users :
    /\ setAuthSession(a, r, u)
    /\ UNCHANGED <<now, outsideAuth>>

AuthUpdateAccessToken ==
  \E a \in AccessInputs :
    /\ updateAccessToken(a)
    /\ UNCHANGED <<now, outsideAuth>>

AuthClearSession ==
  /\ clearAuthSession
  /\ UNCHANGED <<now, outsideAuth>>

AuthTick ==
  /\ now + AuthTickMs <= MaxAuthTicks * AuthTickMs
  /\ now' = now + AuthTickMs
  /\ UNCHANGED <<authVars, outsideAuth>>

AuthNext ==
  \/ AuthSetSession
  \/ AuthUpdateAccessToken
  \/ AuthClearSession
  \/ AuthTick

SpecAuth == AuthInit /\ [][AuthNext]_vars

\* The cookie written by the last call has not yet outlived its Max-Age.
CookieMaxAgeElapsed == cookieJar.present /\ now >= cookieJar.expiresAt

\* C10: after setAuthSession or updateAccessToken the value the browser sends as
\* ct_access_token equals the stored access token, which getAccessToken returns,
\* until the cookie's 24-hour Max-Age elapses; after clearAuthSession the access
\* token, the refresh token, the profile and the cookie are all absent, so
\* getAccessToken and getRefreshToken return '' and getStoredUser returns null.
C10_CookieMirrorsAccessToken ==
  /\ (lastAuthCall \in {"setAuthSession", "updateAccessToken"} /\ ~CookieMaxAgeElapsed)
       => /\ localStorage[ACCESS_TOKEN_KEY] # NULL
          /\ CookieSent(cookieJar, now) = localStorage[ACCESS_TOKEN_KEY]
          /\ getAccessToken = localStorage[ACCESS_TOKEN_KEY]
  /\ lastAuthCall = "clearAuthSession"
       => /\ \A k \in StorageKeys : localStorage[k] = NULL
          /\ CookieSent(cookieJar, now) = NULL
          /\ getAccessToken = EmptyString
          /\ getRefreshToken = EmptyString
          /\ getStoredUser = NULL

\* an access token that needs escaping was written by updateAccessToken into a
\* store that holds no profile, some time ago, and the cookie still carries it
C10_Witness ==
  /\ lastAuthCall = "updateAccessToken"
  /\ localStorage[USER_KEY] = NULL
  /\ localStorage[ACCESS_TOKEN_KEY] = <<"b", ";", "c">>
  /\ CookieSent(cookieJar, now) = <<"b", ";", "c">>
  /\ now > 0 /\ now < cookieJar.expiresAt

----------------------------------------------------------------------------
(* Page requests through the middleware, with the session store's cookie *)

MwInit == AuthInit

\* the browser requests a page and sends the cookie it holds
MwNavigate ==
  \E pathname \in Pathnames :
    /\ navigation' = [pathname |-> pathname,
                      token    |-> CookieSent(cookieJar, now),
                      response |-> ServeRequest(pathname, CookieSent(cookieJar, now))]
    /\ UNCHANGED <<now, authVars, outsideMw>>

MwSetSession ==
  \E a \in AccessInputs, r \in RefreshInputs, u \in Users :
    /\ setAuthSession(a, r, u)
    /\ UNCHANGED <<now, outsideAuth>>

MwClearSession ==
  /\ clearAuthSession
  /\ UNCHANGED <<now, outsideAuth>>

MwTick ==
  /\ now + AuthTickMs <= MaxAuthTicks * AuthTickMs
  /\ now' = now + AuthTickMs
  /\ UNCHANGED <<authVars, outsideAuth>>

MwNext ==
  \/ MwNavigate
  \/ MwSetSession
  \/ MwClearSession
  \/ MwTick

SpecMw == MwInit /\ [][MwNext]_vars

\* the first path segment: the characters between the leading '/' and the next '/'
FirstSegment(pathname) == UpToSlash(Tail(pathname))

Navigated == navigation.pathname # NULL

\* what the middleware is said to enforce on a request
Enforced(nav) ==
  IF Truthy(nav.token)
    THEN nav.response.kind = "next"
    ELSE /\ nav.response.kind = "redirect"
         /\ nav.response.location = Slash(Str_login)
         /\ nav.response.next = nav.pathname

\* C7 as stated: every request whose pathname starts with /book, /my-reservations
\* or /profile passes only with a non-empty ct_access_token cookie and is
\* otherwise redirected to /login?next=<pathname>; every other request passes.
C7_Original ==
  Navigated =>
    IF \E prefix \in protectedPrefixes : StartsWith(navigation.pathname, prefix)
      THEN Enforced(navigation)
      ELSE navigation.response.kind = "next"

\* C7 amended: the token is enforced on the requests whose first path segment is
\* exactly book, my-reservations or profile (the paths config.matcher selects);
\* every other request passes, also one such as /books whose pathname merely
\* starts with a protected prefix.
C7_TokenEnforcedOnMatchedRoutes ==
  Navigated =>
    IF FirstSegment(navigation.pathname) \in {Str_book, Str_my_reservations, Str_profile}
      THEN Enforced(navigation)
      ELSE navigation.response.kind = "next"

\* a protected page below /book was requested with an empty cookie and redirected
C7_Witness ==
  /\ navigation.pathname = Slash(Str_book) \o Slash(Str_x)
  /\ navigation.token = EmptyString
  /\ navigation.response = ResponseRedirect(Slash(Str_login), Slash(Str_book) \o Slash(Str_x))

----------------------------------------------------------------------------
(* The cached fetches and the mutating calls of lib/services.ts *)

IsFetch(fn) == fn \in {c.fn : c \in FetchCalls}

FreeSlot(s) ==
  /\ inflight[s].stage = "idle"
  /\ \A other \in 1..(s - 1) : inflight[other].stage # "idle"

\* a cached fetch finds a live entry and returns it
CacheFetchHit ==
  \E call \in FetchCalls :
    /\ fetchCalls < MaxFetchCalls
    /\ readCacheResult(requestCache, call.key, now) # NULL
    /\ requestCache' = readCacheEffect(requestCache, call.key, now)
    /\ lastReturn' = [fn |-> call.fn, key |-> call.key, source |-> "cache",
                     data |-> readCacheResult(requestCache, call.key, now)]
    /\ fetchCalls' = fetchCalls + 1
    /\ UNCHANGED <<now, serverVersion, inflight, reserved, outsideCache>>

\* a cached fetch finds nothing usable and sends its GET
CacheFetchMiss ==
  \E call \in FetchCalls, s \in 1..MaxInflight :
    /\ fetchCalls < MaxFetchCalls
    /\ FreeSlot(s)
    /\ readCacheResult(requestCache, call.key, now) = NULL
    /\ requestCache' = readCacheEffect(requestCache, call.key, now)
    /\ inflight' = [inflight EXCEPT ![s] =
         [fn |-> call.fn, key |-> call.key, ttlMs |-> call.ttlMs, stage |-> "sent",
          ok |-> FALSE, data |-> NULL]]
    /\ lastReturn' = [fn |-> call.fn, key |-> call.key, source |-> "request", data |-> NULL]
    /\ fetchCalls' = fetchCalls + 1
    /\ UNCHANGED <<now, serverVersion, reserved, outsideCache>>

\* createReservation / createReview / deleteReview / createOrder send their request
CacheMutate ==
  \E call \in MutatingCalls, s \in 1..MaxInflight :
    /\ FreeSlot(s)
    /\ serverVersion + Cardinality({o \in 1..MaxInflight :
          inflight[o].stage # "idle" /\ ~IsFetch(inflight[o].fn)}) < MaxServerVersion
    /\ inflight' = [inflight EXCEPT ![s] =
         [fn |-> call.fn, key |-> call.key, ttlMs |-> 0, stage |-> "sent",
          ok |-> FALSE, data |-> NULL]]
    /\ lastReturn' = NoFetch
    /\ UNCHANGED <<now, requestCache, serverVersion, fetchCalls, reserved, outsideCache>>

\* the server handles a GET: the response carries the data it holds now
ServerAnswerFetch ==
  \E s \in 1..MaxInflight :
    /\ inflight[s].stage = "sent"
    /\ IsFetch(inflight[s].fn)
    /\ inflight' = [inflight EXCEPT ![s].stage = "answered", ![s].ok = TRUE,
                                    ![s].data = Data(serverVersion)]
    /\ lastReturn' = NoFetch
    /\ UNCHANGED <<now, requestCache, serverVersion, fetchCalls, reserved, outsideCache>>

\* the server applies a mutating request; its response is the record it made
ServerAnswerMutation ==
  \E s \in 1..MaxInflight :
    /\ inflight[s].stage = "sent"
    /\ ~IsFetch(inflight[s].fn)
    /\ serverVersion < MaxServerVersion
    /\ serverVersion' = serverVersion + 1
    /\ inflight' = [inflight EXCEPT ![s].stage = "answered", ![s].ok = TRUE,
                                    ![s].data = Data(serverVersion + 1)]
    /\ lastReturn' = NoFetch
    /\ UNCHANGED <<now, requestCache, fetchCalls, reserved, outsideCache>>

\* the request fails: an error status, a timeout or no connection
ServerReject ==
  \E s \in 1..MaxInflight :
    /\ inflight[s].stage = "sent"
    /\ inflight' = [inflight EXCEPT ![s].stage = "answered", ![s].ok = FALSE]
    /\ lastReturn' = NoFetch
    /\ UNCHANGED <<now, requestCache, serverVersion, fetchCalls, reserved, outsideCache>>

\* await api.get(...) resolves: writeCache and return
FetchResolves ==
  \E s \in 1..MaxInflight :
    /\ inflight[s].stage = "answered" /\ inflight[s].ok
    /\ IsFetch(inflight[s].fn)
    /\ requestCache' = writeCache(requestCache, inflight[s].key, inflight[s].data,
                                  inflight[s].ttlMs, now)
    /\ lastReturn' = [fn |-> inflight[s].fn, key |-> inflight[s].key, source |-> "network",
                     data |-> inflight[s].data]
    /\ inflight' = [inflight EXCEPT ![s] = IdleSlot]
    /\ UNCHANGED <<now, serverVersion, fetchCalls, reserved, outsideCache>>

\* await api.post / api.delete resolves: clearCacheByPrefix and return
MutationResolves ==
  \E s \in 1..MaxInflight :
    /\ inflight[s].stage = "answered" /\ inflight[s].ok
    /\ ~IsFetch(inflight[s].fn)
    /\ requestCache' = clearCacheByPrefixes(requestCache, ClearedPrefixes(inflight[s]))
    /\ inflight' = [inflight EXCEPT ![s] = IdleSlot]
    /\ lastReturn' = [fn |-> inflight[s].fn, key |-> inflight[s].key, source |-> "mutation",
                      data |-> NULL]
    /\ reserved' = IF inflight[s].fn = "createReservation"
                     THEN [reserved EXCEPT ![inflight[s].key] = Version(inflight[s].data)]
                     ELSE reserved
    /\ UNCHANGED <<now, serverVersion, fetchCalls, outsideCache>>

\* the awaited request rejects: the call throws before it touches the cache
CallRejects ==
  \E s \in 1..MaxInflight :
    /\ inflight[s].stage = "answered" /\ ~inflight[s].ok
    /\ inflight' = [inflight EXCEPT ![s] = IdleSlot]
    /\ lastReturn' = IF IsFetch(inflight[s].fn)
                      THEN [fn |-> inflight[s].fn, key |-> inflight[s].key,
                            source |-> "error", data |-> NULL]
                      ELSE NoFetch
    /\ UNCHANGED <<now, requestCache, serverVersion, fetchCalls, reserved, outsideCache>>

CacheTick ==
  /\ now + CacheTickMs <= MaxCacheTicks * CacheTickMs
  /\ now' = now + CacheTickMs
  /\ lastReturn' = NoFetch
  /\ UNCHANGED <<requestCache, serverVersion, inflight, fetchCalls, reserved, outsideCache>>

CacheInit == AuthInit

CacheNext ==
  \/ CacheFetchHit
  \/ CacheFetchMiss
  \/ CacheMutate
  \/ ServerAnswerFetch
  \/ ServerAnswerMutation
  \/ ServerReject
  \/ FetchResolves
  \/ MutationResolves
  \/ CallRejects
  \/ CacheTick

SpecCache == CacheInit /\ [][CacheNext]_vars

\* the TTL the claim gives each cached fetch
StatedTtl(fn) ==
  CASE fn = "fetchAvailableSlots" -> 20000
    [] fn = "fetchReviews"        -> 30000
    [] OTHER                      -> 60000

RequestsFor(slots, key) ==
  {s \in 1..MaxInflight : slots[s].stage # "idle" /\ IsFetch(slots[s].fn) /\ slots[s].key = key}

\* C5: a cached fetch returns stored data without a network request only if an
\* entry for its key exists and the time is not later than the entry's expiry,
\* which is its write time plus the TTL (60 s, 20 s for slots, 30 s for reviews);
\* a call that reads an expired entry deletes it and sends the request, and the
\* data of a successful response is cached with a fresh expiry.
C5_CachedFetchHonoursTtl ==
  [][ /\ lastReturn'.source = "cache" =>
           /\ requestCache[lastReturn'.key] # NoEntry
           /\ now <= requestCache[lastReturn'.key].expiresAt
           /\ lastReturn'.data = requestCache[lastReturn'.key].data
           /\ inflight' = inflight
      /\ (/\ lastReturn'.source \in {"cache", "request"}
          /\ requestCache[lastReturn'.key] # NoEntry
          /\ now > requestCache[lastReturn'.key].expiresAt) =>
           /\ lastReturn'.source = "request"
           /\ requestCache'[lastReturn'.key] = NoEntry
           /\ Cardinality(RequestsFor(inflight', lastReturn'.key))
                = Cardinality(RequestsFor(inflight, lastReturn'.key)) + 1
      /\ lastReturn'.source = "network" =>
           requestCache'[lastReturn'.key] =
             [data |-> lastReturn'.data, expiresAt |-> now + StatedTtl(lastReturn'.fn)]
    ]_vars

\* a cached reviews entry was returned at the very millisecond it expires
C5_Witness ==
  /\ lastReturn.source = "cache"
  /\ lastReturn.fn = "fetchReviews"
  /\ now > 0
  /\ requestCache[lastReturn.key].expiresAt = now

\* key.startsWith(prefix), character by character
HasPrefix(key, prefix) ==
  /\ Len(key) >= Len(prefix)
  /\ \A i \in 1..Len(prefix) : key[i] = prefix[i]

PrefixInputs ==
  {EmptyString, Str_menu_colon, Str_reviews_colon, Str_slots_colon, Str_menu_best_ordered,
   Str_menu_featured, slotsCacheKey(Date1), slotsCacheKey(Date2), Str_all}

\* the entries the claim says each mutating call removes
StatedRemoved(fn, arg) ==
  CASE fn \in {"createReview", "deleteReview"} ->
         {k \in CacheKeys : HasPrefix(k, Str_reviews_colon) \/ HasPrefix(k, Str_menu_colon)}
    [] fn = "createOrder" -> {Str_menu_best_ordered}
    [] fn = "createReservation" -> {Str_slots_colon \o arg}
    [] OTHER -> {}

\* C6: clearCacheByPrefix(p) removes exactly the entries whose key starts with p
\* and leaves every other entry unchanged; a successful createReview or
\* deleteReview removes all 'reviews:' and 'menu:' entries, a successful
\* createOrder only 'menu:best-ordered', a successful createReservation only
\* the 'slots:<date>' entry of the reserved date.
C6_PrefixInvalidation ==
  /\ [](\A p \in PrefixInputs : \A k \in CacheKeys :
          clearCacheByPrefix(requestCache, p)[k] =
            IF HasPrefix(k, p) THEN NoEntry ELSE requestCache[k])
  /\ [][ lastReturn'.source = "mutation" =>
           \A k \in CacheKeys :
             requestCache'[k] =
               IF k \in StatedRemoved(lastReturn'.fn, lastReturn'.key)
                 THEN NoEntry ELSE requestCache[k]
      ]_vars

\* createOrder returned while two menu entries were cached: the featured list
\* is still there
C6_Witness ==
  /\ lastReturn.source = "mutation"
  /\ lastReturn.fn = "createOrder"
  /\ requestCache[Str_menu_featured] # NoEntry
  /\ requestCache[menuCacheKey(Str_mains, <<Str_vegan, Str_gluten_free>>)] # NoEntry

\* C18: once createReservation for a date has returned, a fetchAvailableSlots
\* call for that date never returns data the server gave out before that
\* reservation existed, whether it answers from the cache or from its request.
C18_SlotsFreshAfterReservation ==
  [][\A d \in Dates :
        /\ lastReturn'.fn = "fetchAvailableSlots"
        /\ lastReturn'.key = slotsCacheKey(d)
        /\ lastReturn'.source = "cache"
        => Version(lastReturn'.data) >= reserved[d]]_vars

\* fetchAvailableSlots answered from the cache with the slots of before the
\* reservation: its entry was written, after createReservation had cleared it,
\* by a request the server had answered before the reservation
C18_Witness ==
  /\ lastReturn.fn = "fetchAvailableSlots"
  /\ lastReturn.key = slotsCacheKey(Date1)
  /\ lastReturn.source = "cache"
  /\ lastReturn.data = Data(0)
  /\ reserved[Date1] = 1
  /\ serverVersion = 1
  /\ now = 0

----------------------------------------------------------------------------
(* The shared axios client: requests, the 401 handler and the token refresh *)

ApiInit == AuthInit

SetCall(c, call) == calls' = [calls EXCEPT ![c] = call]

\* a slot is free for a new request once its previous request has settled
CallSlotFree(c) == calls[c].pc \in {"idle", "resolved", "rejected"}

NextCall(c) ==
  /\ CallSlotFree(c)
  /\ \A other \in 1..(c - 1) : ~CallSlotFree(other)

Awaiting(id) == {c \in 1..MaxCalls : calls[c].pc = "refreshing" /\ calls[c].awaiting = id}

UnusedRefreshes == {id \in 1..MaxRefreshes : refreshes[id].state = "unused"}

\* a settled refresh nobody waits for any more can be forgotten
ForgottenRefreshes ==
  {id \in 1..MaxRefreshes :
     refreshes[id].state \in {"fulfilled", "rejected"} /\ Awaiting(id) = {}}

Lowest(ids) == CHOOSE id \in ids : \A other \in ids : id <= other

NextRefresh(id) ==
  IF UnusedRefreshes # {} THEN id = Lowest(UnusedRefreshes)
  ELSE ForgottenRefreshes # {} /\ id = Lowest(ForgottenRefreshes)

\* api.request(config): the request interceptor runs and the request is sent
ApiSend(c) ==
  \E url \in Urls :
    /\ NextCall(c)
    /\ SetCall(c, [IdleCall EXCEPT !.pc = "inflight", !.url = url, !.sends = 1,
                                   !.authorization = RequestInterceptor(NULL, getAccessToken)])
    /\ UNCHANGED <<now, authVars, refreshPromise, refreshes, outsideApi>>

\* a 2xx response: the response interceptor passes it on
ApiResponseSuccess(c) ==
  /\ calls[c].pc = "inflight"
  /\ SetCall(c, [calls[c] EXCEPT !.pc = "resolved", !.status = @ \o <<STATUS_OK>>])
  /\ UNCHANGED <<now, authVars, refreshPromise, refreshes, outsideApi>>

\* an error the handler does not refresh for: Promise.reject(new Error(message))
ApiErrorRejected(c, error) ==
  /\ calls[c].pc = "inflight"
  /\ ~ShouldRefresh(error.status, calls[c].retry, calls[c].url)
  /\ SetCall(c, [calls[c] EXCEPT
       !.pc = "rejected", !.status = @ \o <<error.status>>, !.error = error,
       !.rejection = Rejection(ErrorMessage(error.payload, error.message))])
  /\ UNCHANGED <<now, authVars, refreshPromise, refreshes, outsideApi>>

\* a first 401 while a refresh is pending: await the shared promise
ApiErrorJoinsRefresh(c, error) ==
  /\ calls[c].pc = "inflight"
  /\ ShouldRefresh(error.status, calls[c].retry, calls[c].url)
  /\ JoinsPendingRefresh(refreshPromise)
  /\ SetCall(c, [calls[c] EXCEPT !.pc = "refreshing", !.retry = TRUE,
                                 !.awaiting = refreshPromise, !.error = error,
                                 !.status = @ \o <<error.status>>])
  /\ UNCHANGED <<now, authVars, refreshPromise, refreshes, outsideApi>>

\* a first 401 with no refresh token stored: refreshAccessToken throws, the
\* handler clears the session and rejects
ApiErrorSessionExpired(c, error) ==
  /\ calls[c].pc = "inflight"
  /\ ShouldRefresh(error.status, calls[c].retry, calls[c].url)
  /\ ~JoinsPendingRefresh(refreshPromise)
  /\ ~Truthy(getRefreshToken)
  /\ clearAuthSession
  /\ SetCall(c, [calls[c] EXCEPT
       !.pc = "rejected", !.retry = TRUE, !.status = @ \o <<error.status>>, !.error = error,
       !.rejection = Rejection(ErrorMessage(error.payload, error.message))])
  /\ UNCHANGED <<now, refreshPromise, refreshes, outsideApi>>

\* a first 401 with no refresh pending: POST /auth/refresh/ and await it
ApiErrorStartsRefresh(c, error) ==
  \E id \in 1..MaxRefreshes :
    /\ calls[c].pc = "inflight"
    /\ ShouldRefresh(error.status, calls[c].retry, calls[c].url)
    /\ ~JoinsPendingRefresh(refreshPromise)
    /\ Truthy(getRefreshToken)
    /\ NextRefresh(id)
    /\ refreshes' = [refreshes EXCEPT ![id] =
         [state |-> "pending", sent |-> getRefreshToken, value |-> NULL]]
    /\ refreshPromise' = id
    /\ SetCall(c, [calls[c] EXCEPT !.pc = "refreshing", !.retry = TRUE, !.awaiting = id,
                                   !.error = error, !.status = @ \o <<error.status>>])
    /\ UNCHANGED <<now, authVars, outsideApi>>

\* the refresh request succeeds: .then stores the tokens, .finally resets the promise
RefreshResponseSuccess(id) ==
  \E access \in RefreshedAccessTokens, returnedRefresh \in ReturnedRefreshTokens :
    /\ refreshes[id].state = "pending"
    /\ localStorage' = RefreshThenStorage(localStorage, refreshes[id].sent, access,
                                          returnedRefresh)
    /\ cookieJar' = RefreshThenCookie(localStorage, cookieJar, access, now)
    /\ lastAuthCall' = IF getStoredUser # NULL THEN "updateAccessToken" ELSE lastAuthCall
    /\ refreshes' = [refreshes EXCEPT ![id].state = "fulfilled", ![id].value = access]
    /\ refreshPromise' = NoPromise
    /\ UNCHANGED <<now, calls, outsideApi>>

\* the refresh request fails: .then is skipped, .finally resets the promise
RefreshResponseFailure(id) ==
  /\ refreshes[id].state = "pending"
  /\ refreshes' = [refreshes EXCEPT ![id].state = "rejected"]
  /\ refreshPromise' = NoPromise
  /\ UNCHANGED <<now, authVars, calls, outsideApi>>

\* await refreshAccessToken() returns: set the header and api.request(originalRequest),
\* whose request interceptor runs again
ApiResend(c) ==
  /\ calls[c].pc = "refreshing"
  /\ refreshes[calls[c].awaiting].state = "fulfilled"
  /\ SetCall(c, [calls[c] EXCEPT
       !.pc = "inflight", !.sends = @ + 1, !.awaiting = NoPromise,
       !.authorization = RequestInterceptor(refreshes[calls[c].awaiting].value, getAccessToken)])
  /\ UNCHANGED <<now, authVars, refreshPromise, refreshes, outsideApi>>

\* await refreshAccessToken() throws: clearAuthSession() and reject with the
\* message of the 401 response
ApiRefreshFailed(c) ==
  /\ calls[c].pc = "refreshing"
  /\ refreshes[calls[c].awaiting].state = "rejected"
  /\ clearAuthSession
  /\ SetCall(c, [calls[c] EXCEPT
       !.pc = "rejected", !.awaiting = NoPromise,
       !.rejection = Rejection(ErrorMessage(calls[c].error.payload, calls[c].error.message))])
  /\ UNCHANGED <<now, refreshPromise, refreshes, outsideApi>>

\* AuthProvider.login: setAuthSession(session.access, session.refresh, session.user)
ApiLogin ==
  /\ setAuthSession(LoginAccess, LoginRefresh, LoginUser)
  /\ UNCHANGED <<now, apiVars, outsideApi>>

\* AuthProvider.logout: clearAuthSession()
ApiLogout ==
  /\ clearAuthSession
  /\ UNCHANGED <<now, apiVars, outsideApi>>

ApiNext ==
  \/ \E c \in 1..MaxCalls : ApiSend(c)
  \/ \E c \in 1..MaxCalls : ApiResponseSuccess(c)
  \/ \E c \in 1..MaxCalls, error \in PlainErrors : ApiErrorRejected(c, error)
  \/ \E c \in 1..MaxCalls, error \in PlainErrors : ApiErrorJoinsRefresh(c, error)
  \/ \E c \in 1..MaxCalls, error \in PlainErrors : ApiErrorSessionExpired(c, error)
  \/ \E c \in 1..MaxCalls, error \in PlainErrors : ApiErrorStartsRefresh(c, error)
  \/ \E id \in 1..MaxRefreshes : RefreshResponseSuccess(id)
  \/ \E id \in 1..MaxRefreshes : RefreshResponseFailure(id)
  \/ \E c \in 1..MaxCalls : ApiResend(c)
  \/ \E c \in 1..MaxCalls : ApiRefreshFailed(c)
  \/ ApiLogin
  \/ ApiLogout

SpecApi == ApiInit /\ [][ApiNext]_vars

\* every request is answered or times out (timeout: 10000), and a continuation
\* whose promise has settled runs
ApiResponds(c) ==
  \/ ApiResponseSuccess(c)
  \/ \E error \in PlainErrors : ApiErrorRejected(c, error)
  \/ \E error \in PlainErrors : ApiErrorJoinsRefresh(c, error)
  \/ \E error \in PlainErrors : ApiErrorSessionExpired(c, error)
  \/ \E error \in PlainErrors : ApiErrorStartsRefresh(c, error)

RefreshSettles(id) == RefreshResponseSuccess(id) \/ RefreshResponseFailure(id)

ApiContinues(c) == ApiResend(c) \/ ApiRefreshFailed(c)

SpecApiFair ==
  /\ SpecApi
  /\ \A c \in 1..MaxCalls : WF_vars(ApiResponds(c)) /\ WF_vars(ApiContinues(c))
  /\ \A id \in 1..MaxRefreshes : WF_vars(RefreshSettles(id))

\* the same client with one request at a time and every kind of error body
ErrNext ==
  \/ ApiSend(1)
  \/ ApiResponseSuccess(1)
  \/ \E error \in AllErrors : ApiErrorRejected(1, error)
  \/ \E error \in AllErrors : ApiErrorSessionExpired(1, error)
  \/ \E error \in AllErrors : ApiErrorStartsRefresh(1, error)
  \/ \E id \in 1..MaxRefreshes : RefreshResponseSuccess(id)
  \/ \E id \in 1..MaxRefreshes : RefreshResponseFailure(id)
  \/ ApiResend(1)
  \/ ApiRefreshFailed(1)
  \/ ApiLogin
  \/ ApiLogout

SpecErr == ApiInit /\ [][ErrNext]_vars

----------------------------------------------------------------------------
(* The client one browser task at a time *)

\* The code after `await refreshAccessToken()` is a promise continuation: it
\* runs when the refresh settles, before the browser delivers another response
\* or event. While a caller's awaited refresh has settled, only continuations run.
ContinuationPending ==
  \E c \in 1..MaxCalls :
    /\ calls[c].pc = "refreshing"
    /\ refreshes[calls[c].awaiting].state \in {"fulfilled", "rejected"}

\* between two requests the auth_user entry of the origin's storage is removed
\* or left as text getStoredUser cannot read, while the token entries stay
\* (lib/auth.ts returns null for an absent entry and for text that is not JSON)
ApiProfileUnreadable ==
  /\ \A c \in 1..MaxCalls : CallSlotFree(c)
  /\ refreshPromise = NoPromise
  /\ Truthy(getAccessToken)
  /\ getStoredUser # NULL
  /\ \E raw \in {NULL, Str_undefined} :
       localStorage' = [localStorage EXCEPT ![USER_KEY] = raw]
  /\ UNCHANGED <<now, cookieJar, lastAuthCall, apiVars, outsideApi>>

TaskSend(c) == ~ContinuationPending /\ ApiSend(c)

TaskResponseSuccess(c) == ~ContinuationPending /\ ApiResponseSuccess(c)

TaskErrorRejected(c, error) == ~ContinuationPending /\ ApiErrorRejected(c, error)

TaskErrorJoinsRefresh(c, error) == ~ContinuationPending /\ ApiErrorJoinsRefresh(c, error)

TaskErrorSessionExpired(c, error) == ~ContinuationPending /\ ApiErrorSessionExpired(c, error)

TaskErrorStartsRefresh(c, error) == ~ContinuationPending /\ ApiErrorStartsRefresh(c, error)

TaskRefreshResponseSuccess(id) == ~ContinuationPending /\ RefreshResponseSuccess(id)

TaskRefreshResponseFailure(id) == ~ContinuationPending /\ RefreshResponseFailure(id)

TaskLogin == ~ContinuationPending /\ ApiLogin

TaskLogout == ~ContinuationPending /\ ApiLogout

TaskProfileUnreadable == ~ContinuationPending /\ ApiProfileUnreadable

SessionNext ==
  \/ \E c \in 1..MaxCalls : TaskSend(c)
  \/ \E c \in 1..MaxCalls : TaskResponseSuccess(c)
  \/ \E c \in 1..MaxCalls, error \in PlainErrors : TaskErrorRejected(c, error)
  \/ \E c \in 1..MaxCalls, error \in PlainErrors : TaskErrorJoinsRefresh(c, error)
  \/ \E c \in 1..MaxCalls, error \in PlainErrors : TaskErrorSessionExpired(c, error)
  \/ \E c \in 1..MaxCalls, error \in PlainErrors : TaskErrorStartsRefresh(c, error)
  \/ \E id \in 1..MaxRefreshes : TaskRefreshResponseSuccess(id)
  \/ \E id \in 1..MaxRefreshes : TaskRefreshResponseFailure(id)
  \/ \E c \in 1..MaxCalls : ApiResend(c)
  \/ \E c \in 1..MaxCalls : ApiRefreshFailed(c)
  \/ TaskLogin
  \/ TaskLogout
  \/ TaskProfileUnreadable

SpecSession == ApiInit /\ [][SessionNext]_vars


PendingRefreshes == {id \in 1..MaxRefreshes : refreshes[id].state = "pending"}

SettledRefreshes == {id \in 1..MaxRefreshes : refreshes[id].state \in {"fulfilled", "rejected"}}

\* C1: at most one POST /auth/refresh/ is in flight; refreshPromise is that
\* pending request and is null exactly when none is pending (so it is reset
\* when the refresh settles, fulfilled or rejected); every caller that is
\* waiting for a pending refresh waits for that same shared promise.
C1_SingleFlightRefresh ==
  /\ Cardinality(PendingRefreshes) <= 1
  /\ refreshPromise = NoPromise <=> PendingRefreshes = {}
  /\ refreshPromise # NoPromise => PendingRefreshes = {refreshPromise}
  /\ \A c \in 1..MaxCalls :
       calls[c].pc = "refreshing" /\ calls[c].awaiting \in PendingRefreshes
         => calls[c].awaiting = refreshPromise

\* an earlier refresh has settled, a later 401 has started a new one, and
\* two callers share the new pending promise
C1_Witness ==
  /\ SettledRefreshes # {}
  /\ \E id \in PendingRefreshes : Cardinality(Awaiting(id)) >= 2

Settled(c) == calls[c].pc \in {"resolved", "rejected"}

Unsettled(c) == calls[c].pc \in {"inflight", "refreshing"}

\* C2: a request is sent at most twice, and a second time only after a 401 on
\* a URL without /auth/refresh/; the answer to the re-sent request settles the
\* call without touching the refresh machinery, a 401 rejecting it; and every
\* request under way eventually resolves or rejects.
C2_RetryAtMostOnce ==
  /\ [](\A c \in 1..MaxCalls :
         /\ calls[c].sends <= 2
         /\ calls[c].sends = 2 =>
              /\ calls[c].status[1] = STATUS_UNAUTHORIZED
              /\ ~Includes(calls[c].url, Str_auth_refresh)
              /\ calls[c].retry
         /\ Len(calls[c].status) <= 2
         /\ Len(calls[c].status) = 2 =>
              /\ Settled(c)
              /\ calls[c].status[2] # STATUS_OK => calls[c].pc = "rejected")
  /\ [][\A c \in 1..MaxCalls :
         calls[c].sends = 2 /\ calls[c].pc = "inflight" /\ calls'[c] # calls[c]
           => /\ Settled(c)'
              /\ refreshes' = refreshes
              /\ refreshPromise' = refreshPromise]_vars
  /\ \A c \in 1..MaxCalls : Unsettled(c) ~> Settled(c)

\* a re-sent request answered 401 again has been rejected
C2_Witness ==
  \E c \in 1..MaxCalls :
    /\ calls[c].status = <<STATUS_UNAUTHORIZED, STATUS_UNAUTHORIZED>>
    /\ calls[c].sends = 2
    /\ calls[c].pc = "rejected"

\* the session store with nothing in it and no cookie
SessionCleared(ls, jar) ==
  /\ \A k \in StorageKeys : ls[k] = NULL
  /\ CookieSent(jar, now) = NULL

\* the refresh a call's 401 asks for fails at once: none is pending to join and
\* no refresh token is stored
RefreshThrows(c) ==
  /\ calls[c].pc = "inflight"
  /\ ~calls[c].retry
  /\ ~Includes(calls[c].url, Str_auth_refresh)
  /\ refreshPromise = NoPromise
  /\ ~Truthy(getRefreshToken)

\* the refresh a call waits for has been rejected
RefreshRejected(c) ==
  /\ calls[c].pc = "refreshing"
  /\ refreshes[calls[c].awaiting].state = "rejected"

\* C15: when a request is answered 401 and the refresh fails, because no
\* refresh token is stored or because the refresh request is rejected, the
\* handler's step leaves the stored session empty (access token, refresh token,
\* profile and cookie), sends nothing again and rejects the call with an Error.
C15_FailedRefreshClearsSession ==
  [][\A c \in 1..MaxCalls :
        \/ /\ RefreshThrows(c)
           /\ calls'[c].status = calls[c].status \o <<STATUS_UNAUTHORIZED>>
        \/ /\ RefreshRejected(c)
           /\ calls'[c] # calls[c]
        => /\ SessionCleared(localStorage', cookieJar')
           /\ calls'[c].pc = "rejected"
           /\ calls'[c].sends = calls[c].sends
           /\ calls'[c].rejection # NoRejection]_vars

\* one call was rejected after its refresh request failed, the next one
\* because no refresh token was left; neither was sent twice
C15_Witness ==
  /\ calls[1].pc = "rejected" /\ calls[1].retry /\ calls[1].sends = 1
  /\ calls[2].pc = "rejected" /\ calls[2].retry /\ calls[2].sends = 1
  /\ refreshes[1].state = "rejected"
  /\ refreshes[2].state = "unused"
  /\ lastAuthCall = "clearAuthSession"
  /\ SessionCleared(localStorage, cookieJar)

\* C16: when a refresh succeeds while a profile is persisted, the stored access
\* token and the cookie become the returned access token and the stored refresh
\* token becomes the returned one, or the one sent when none was returned; when
\* no profile is persisted the storage and the cookie stay as they are.
C16_RefreshRotatesTokens ==
  /\ [](\A id \in 1..MaxRefreshes, access \in RefreshedAccessTokens,
           returnedRefresh \in ReturnedRefreshTokens :
          refreshes[id].state = "pending" =>
            LET after == RefreshThenStorage(localStorage, refreshes[id].sent, access,
                                            returnedRefresh)
                jar   == RefreshThenCookie(localStorage, cookieJar, access, now)
            IN  IF getStoredUser # NULL
                  THEN /\ after[ACCESS_TOKEN_KEY] = access
                       /\ CookieSent(jar, now) = access
                       /\ after[REFRESH_TOKEN_KEY] =
                            (IF returnedRefresh # NULL THEN returnedRefresh
                                                       ELSE refreshes[id].sent)
                       /\ after[USER_KEY] = localStorage[USER_KEY]
                  ELSE after = localStorage /\ jar = cookieJar)
  /\ [][\A id \in 1..MaxRefreshes :
          refreshes[id].state = "pending" /\ refreshes'[id].state = "fulfilled" =>
            IF getStoredUser # NULL
              THEN /\ localStorage'[ACCESS_TOKEN_KEY] = refreshes'[id].value
                   /\ CookieSent(cookieJar', now) = refreshes'[id].value
                   /\ localStorage'[REFRESH_TOKEN_KEY]
                        \in (ReturnedRefreshTokens \ {NULL}) \cup {refreshes[id].sent}
                   /\ localStorage'[USER_KEY] = localStorage[USER_KEY]
              ELSE localStorage' = localStorage /\ cookieJar' = cookieJar]_vars

\* a refresh answered with a new pair of tokens while the profile was stored,
\* and a later one answered after the session had been cleared
C16_Witness ==
  /\ refreshes[1].state = "fulfilled"
  /\ refreshes[1].sent = LoginRefresh
  /\ refreshes[2].state = "fulfilled"
  /\ refreshes[2].sent = <<"s">>
  /\ lastAuthCall = "clearAuthSession"
  /\ SessionCleared(localStorage, cookieJar)

\* C17: the request re-sent after a successful refresh carries the access
\* token that refresh returned, whatever the session store holds.
C17_ResendCarriesNewToken ==
  [][\A c \in 1..MaxCalls :
        calls[c].pc = "refreshing" /\ calls'[c].sends = calls[c].sends + 1
          => calls'[c].authorization = refreshes[calls[c].awaiting].value]_vars

\* a request was re-sent with the token of the login although the refresh had
\* returned a new one: no profile is stored and the old token still is
C17_Witness ==
  \E c \in 1..MaxCalls :
    /\ calls[c].pc = "inflight"
    /\ calls[c].sends = 2
    /\ calls[c].authorization = LoginAccess
    /\ refreshes[1].state = "fulfilled"
    /\ refreshes[1].value = <<"n">>
    /\ getStoredUser = NULL
    /\ getAccessToken = LoginAccess

\* the sources of the message in the order of the claim
MessageSources(payload) ==
  <<Member(payload, "detail"),
    Member(payload, "message"),
    FirstElement(Member(payload, "non_field_errors")),
    FirstElement(FirstFieldError(payload))>>

PresentSources(payload) ==
  {i \in 1..4 : MessageSources(payload)[i].kind \notin {"undefined", "null"}}

FirstPresentMessage(error) ==
  IF PresentSources(error.payload) = {} THEN error.message
  ELSE MessageSources(error.payload)[Lowest(PresentSources(error.payload))].text

\* C19: a call that fails is rejected with an Error whose message is the first
\* present of the body's detail, its message, the first entry of
\* non_field_errors and the first string of the first field holding a non-empty
\* array of strings, and the transport error's message when none is present.
C19_ErrorMessageOrder ==
  [][\A c \in 1..MaxCalls :
        calls[c].pc # "rejected" /\ calls'[c].pc = "rejected"
          => calls'[c].rejection = <<FirstPresentMessage(calls'[c].error)>>]_vars

\* a 401 whose body has a null detail, a message and non_field_errors was
\* rejected with the message after the refresh request had failed
C19_Witness ==
  /\ calls[1].pc = "rejected"
  /\ calls[1].retry
  /\ refreshes[1].state = "rejected"
  /\ Member(calls[1].error.payload, "detail") = JsonNull
  /\ Member(calls[1].error.payload, "non_field_errors") # Undefined
  /\ calls[1].rejection = <<"m">>

----------------------------------------------------------------------------
(* The cart: provider state, drawer and checkout *)

CartInit == AuthInit

\* setItems(next) and the render that follows: useMemo recomputes both totals
\* and the persist effect writes the new items to localStorage
SetItems(next) ==
  /\ items' = next
  /\ itemCount' = ItemCountOf(next)
  /\ totalAmount' = TotalAmountOf(next)
  /\ cartStorage' = PersistEffect(next)

\* useCart().addItem(item)
CartAddItem ==
  \E item \in MenuItems :
    /\ \A i \in 1..Len(items) :
         items[i].menu_item_id = item.id => items[i].quantity < MaxQuantity
    /\ IF ~item.is_available THEN UNCHANGED <<items, itemCount, totalAmount, cartStorage>>
       ELSE SetItems(addItem(items, item))
    /\ UNCHANGED <<now, isOpen, submitting, authUser, orders, toast, routerPath, lastCheckout,
                   lastMount, outsideCart>>

\* the drawer's remove button of a line
CartRemoveItem ==
  \E i \in 1..Len(items) :
    /\ isOpen
    /\ SetItems(removeItem(items, items[i].menu_item_id))
    /\ UNCHANGED <<now, isOpen, submitting, authUser, orders, toast, routerPath, lastCheckout,
                   lastMount, outsideCart>>

\* the drawer's minus and plus buttons of a line
CartUpdateQuantity ==
  \E i \in 1..Len(items), delta \in {-1, 1} :
    /\ isOpen
    /\ items[i].quantity + delta <= MaxQuantity
    /\ SetItems(updateQuantity(items, items[i].menu_item_id, items[i].quantity + delta))
    /\ UNCHANGED <<now, isOpen, submitting, authUser, orders, toast, routerPath, lastCheckout,
                   lastMount, outsideCart>>

\* setIsOpen(true) from the navigation bar, setIsOpen(false) from the drawer
DrawerToggle ==
  /\ isOpen' = ~isOpen
  /\ UNCHANGED <<now, items, itemCount, totalAmount, submitting, authUser, orders, toast,
                 routerPath, lastCheckout, persistVars, outsideCart>>

\* AuthProvider: setUser(session.user) after login, setUser(null) after logout
CartSetUser ==
  \E usr \in Users \cup {NoUser} :
    /\ usr # authUser
    /\ authUser' = usr
    /\ UNCHANGED <<now, items, itemCount, totalAmount, isOpen, submitting, orders, toast,
                   routerPath, lastCheckout, persistVars, outsideCart>>

\* a click on the Checkout button: a disabled button delivers no event,
\* otherwise handleCheckout runs up to await checkout()
DrawerClickCheckout ==
  /\ isOpen
  /\ ~CheckoutDisabled(submitting, items, authUser)
  /\ Len(orders) < MaxOrdersInFlight
  /\ LET outcome == handleCheckout(items, authUser)
     IN  /\ toast' = IF outcome.toast # NoToast THEN outcome.toast ELSE toast
         /\ isOpen' = IF outcome.close THEN FALSE ELSE isOpen
         /\ routerPath' = IF outcome.push # NULL THEN outcome.push ELSE routerPath
         /\ submitting' = IF outcome.submit THEN TRUE ELSE submitting
         /\ orders' = IF outcome.submit THEN Append(orders, CheckoutPayload(items))
                      ELSE orders
  /\ UNCHANGED <<now, items, itemCount, totalAmount, authUser, lastCheckout, persistVars,
                 outsideCart>>

RemoveAt(s, i) == SubSeq(s, 1, i - 1) \o SubSeq(s, i + 1, Len(s))

\* POST /orders/ succeeds: createOrder clears the best-ordered cache entry,
\* checkout clears the cart and returns the order, handleCheckout closes the
\* drawer, shows the success toast and resets submitting
OrderSucceeds ==
  \E i \in 1..Len(orders) :
    /\ requestCache' = clearCacheByPrefix(requestCache, Str_menu_best_ordered)
    /\ SetItems(clearCart)
    /\ lastCheckout' = [kind |-> "order", items |-> orders[i]]
    /\ isOpen' = FALSE
    /\ toast' = Toast_OrderPlaced
    /\ submitting' = FALSE
    /\ orders' = RemoveAt(orders, i)
    /\ UNCHANGED <<now, authUser, routerPath, authVars, mwVars, apiVars, bookVars,
                   dashVars, themeVars, entrypointVars, lastMount, serverVersion, inflight,
                   lastReturn, fetchCalls, reserved>>

\* POST /orders/ fails: createOrder and checkout throw, handleCheckout shows
\* the error and resets submitting
OrderFails ==
  \E i \in 1..Len(orders) :
    /\ lastCheckout' = [kind |-> "error", items |-> orders[i]]
    /\ toast' = Toast_OrderError
    /\ submitting' = FALSE
    /\ orders' = RemoveAt(orders, i)
    /\ UNCHANGED <<now, items, itemCount, totalAmount, isOpen, authUser, routerPath,
                   persistVars, outsideCart>>

\* a page load: CartProvider mounts over the entry it finds, which is the one
\* the last session left, or none (site data cleared), or text that is not JSON
CartReload ==
  \E raw \in {cartStorage, NULL, Str_not_json}, strictMode \in BOOLEAN :
    /\ lastMount.n < MaxCartMounts
    /\ orders = <<>>
    /\ LET mounted == MountCartProvider(raw, strictMode)
       IN  /\ items' = mounted.items
           /\ itemCount' = ItemCountOf(mounted.items)
           /\ totalAmount' = TotalAmountOf(mounted.items)
           /\ cartStorage' = mounted.storage
    /\ lastMount' = [n |-> lastMount.n + 1, found |-> FoundEntry(raw),
                     lines |-> Len(JSONparseItems(Coalesce(raw, EmptyString)).value),
                     restored |-> Len(items')]
    /\ isOpen' = FALSE
    /\ submitting' = FALSE
    /\ authUser' = NoUser
    /\ toast' = NoToast
    /\ routerPath' = NULL
    /\ lastCheckout' = NoCheckout
    /\ UNCHANGED <<now, orders, outsideCart>>

CartNext ==
  \/ CartAddItem
  \/ CartRemoveItem
  \/ CartUpdateQuantity
  \/ DrawerToggle
  \/ CartSetUser
  \/ DrawerClickCheckout
  \/ OrderSucceeds
  \/ OrderFails
  \/ CartReload

SpecCart == CartInit /\ [][CartNext]_vars


\* C12: once effects have run the cart_items entry is the JSON of the items;
\* a mount over the entry the last session left ends with the items that were
\* persisted, a mount over no entry or over text that is not JSON ends with
\* the empty list, and no mount turns a stored non-empty cart into an empty one.
C12_CartPersists ==
  /\ [](cartStorage = JSONstringifyItems(items))
  /\ [][lastMount'.n # lastMount.n =>
          /\ lastMount'.found = "list" => items' = items
          /\ lastMount'.found \in {"absent", "invalid"} => items' = <<>>
          /\ (lastMount'.found = "list" /\ items # <<>>) =>
               items' # <<>> /\ cartStorage' = cartStorage
       ]_vars

\* a cart of two lines was stored, the provider mounted over it, and both the
\* items and the stored entry are empty afterwards
C12_Witness ==
  /\ lastMount.found = "list"
  /\ lastMount.lines = 2
  /\ lastMount.restored = 0
  /\ items = <<>>
  /\ cartStorage = <<"[", "]">>

\* the listed price of each dish, in hundredths
ListedPrice(menuItemId) ==
  CASE menuItemId = 1 -> 150000 [] menuItemId = 2 -> 25050 [] menuItemId = 3 -> 9999

RECURSIVE SumOfAmounts(_, _)
SumOfAmounts(lines, indices) ==
  IF indices = {} THEN 0
  ELSE LET i == CHOOSE i \in indices : TRUE
       IN  ListedPrice(lines[i].menu_item_id) * lines[i].quantity
             + SumOfAmounts(lines, indices \ {i})

RECURSIVE SumOfQuantities(_, _)
SumOfQuantities(lines, indices) ==
  IF indices = {} THEN 0
  ELSE LET i == CHOOSE i \in indices : TRUE
       IN  lines[i].quantity + SumOfQuantities(lines, indices \ {i})

\* C4: in every cart state totalAmount is the sum over the cart lines of
\* price x quantity and itemCount is the sum of the quantities.
C4_TotalsAreSums ==
  /\ totalAmount = SumOfAmounts(items, DOMAIN items)
  /\ itemCount = SumOfQuantities(items, DOMAIN items)

\* after an earlier checkout emptied the cart, it holds two lines again, one
\* of them twice
C4_Witness ==
  /\ lastCheckout.kind = "order"
  /\ Len(items) = 2
  /\ \E i \in DOMAIN items : items[i].quantity = 2
  /\ totalAmount > 0

\* C8: checkout sends one order holding exactly the cart lines of the moment
\* (menu_item_id and quantity of each); when the request succeeds the cart
\* becomes empty and that order is returned; when it fails the cart is left
\* as it is and the caller gets the error.
C8_CheckoutSubmitsCart ==
  [][/\ Len(orders') > Len(orders) =>
          /\ orders' = Append(orders, orders'[Len(orders')])
          /\ LET payload == orders'[Len(orders')]
             IN  /\ Len(payload) = Len(items)
                 /\ \A i \in DOMAIN items :
                      /\ payload[i].menu_item_id = items[i].menu_item_id
                      /\ payload[i].quantity = items[i].quantity
          /\ items' = items
     /\ Len(orders') < Len(orders) =>
          /\ \E i \in DOMAIN orders :
               /\ orders' = RemoveAt(orders, i)
               /\ lastCheckout'.items = orders[i]
          /\ lastCheckout'.kind \in {"order", "error"}
          /\ lastCheckout'.kind = "order" =>
               items' = <<>> /\ itemCount' = 0 /\ totalAmount' = 0
          /\ lastCheckout'.kind = "error" =>
               items' = items /\ toast' = "error.message"
    ]_vars

\* an order of two lines, one of them twice, was placed and emptied the cart
C8_Witness ==
  /\ lastCheckout.kind = "order"
  /\ Len(lastCheckout.items) = 2
  /\ \E i \in DOMAIN lastCheckout.items : lastCheckout.items[i].quantity = 2
  /\ items = <<>>
  /\ toast = Toast_OrderPlaced

\* C9: an order is sent only from a non-empty cart of a signed-in customer
\* while no checkout is being submitted, so at most one is under way;
\* handleCheckout answers an empty cart, a missing user and a staff user with
\* its three messages and no order, closing the drawer and pushing
\* /login?next=/menu for the missing user.
C9_CheckoutGuards ==
  /\ [](/\ Len(orders) <= 1
        /\ Len(orders) = 1 => submitting
        /\ LET outcome == handleCheckout(items, authUser)
           IN  /\ items = <<>> =>
                    outcome.toast = "Your cart is empty." /\ ~outcome.submit
               /\ items # <<>> /\ authUser = NoUser =>
                    /\ outcome.toast = "Please sign in as a customer to checkout."
                    /\ outcome.close
                    /\ outcome.push = Str_login_next_menu
                    /\ ~outcome.submit
               /\ items # <<>> /\ authUser # NoUser /\ authUser.is_staff = "t" =>
                    /\ outcome.toast = "Staff accounts cannot checkout. Use a customer account."
                    /\ ~outcome.submit)
  /\ [][Len(orders') > Len(orders) =>
          /\ items # <<>>
          /\ authUser # NoUser
          /\ authUser.is_staff # "t"
          /\ ~submitting
          /\ orders = <<>>
       ]_vars

\* a checkout is under way with the drawer open and the cart still filled
C9_Witness ==
  /\ submitting
  /\ Len(orders) = 1
  /\ isOpen
  /\ items # <<>>

----------------------------------------------------------------------------
(* The booking form: actions *)

BookInit == AuthInit

\* the page is opened: step 1 with today's date, and the effect runs
BookMount ==
  /\ currentStep = 0
  /\ currentStep' = 1
  /\ SetPage(RunEffect(Page, selectedDate, now))
  /\ UNCHANGED <<now, selectedDate, bookSubmitting, reservations, serverFull, outsideBook>>

\* the date input: setSelectedDate(event.target.value), then the effect
BookSetDate ==
  \E date \in Dates :
    /\ currentStep = 1
    /\ date # selectedDate
    /\ Len(loads) < MaxLoads
    /\ selectedDate' = date
    /\ SetPage(RunEffect(Page, date, now))
    /\ UNCHANGED <<now, currentStep, bookSubmitting, reservations, serverFull, outsideBook>>

\* handleStepOneNext
BookStepOneNext ==
  /\ currentStep = 1
  /\ currentStep' = 2
  /\ UNCHANGED <<now, selectedDate, availableSlots, fullSlots, slotLoading, selectedTimeSlot,
                 loads, loadedFor, bookSubmitting, reservations, serverFull, requestCache,
                 outsideBook>>

\* a slot button: shown when no load is under way, disabled when full
BookSelectSlot ==
  \E slot \in availableSlots \cup fullSlots :
    /\ currentStep = 2
    /\ ~slotLoading
    /\ slot \notin fullSlots
    /\ slot # selectedTimeSlot
    /\ Len(loads) < MaxLoads
    /\ SetPage(RunEffect([Page EXCEPT !.selectedTimeSlot = slot], selectedDate, now))
    /\ UNCHANGED <<now, currentStep, selectedDate, bookSubmitting, reservations, serverFull,
                   outsideBook>>

\* handleStepTwoNext
BookStepTwoNext ==
  /\ currentStep = 2
  /\ currentStep' = IF selectedTimeSlot = NoSlot THEN 2 ELSE 3
  /\ UNCHANGED <<now, selectedDate, availableSlots, fullSlots, slotLoading, selectedTimeSlot,
                 loads, loadedFor, bookSubmitting, reservations, serverFull, requestCache,
                 outsideBook>>

\* the Back buttons of steps 2 and 3, and Book Another of step 4
BookBack ==
  /\ currentStep \in {2, 3, 4}
  /\ currentStep' = IF currentStep = 4 THEN 1 ELSE currentStep - 1
  /\ UNCHANGED <<now, selectedDate, availableSlots, fullSlots, slotLoading, selectedTimeSlot,
                 loads, loadedFor, bookSubmitting, reservations, serverFull, requestCache,
                 outsideBook>>

\* onGuestSubmit with valid guest details: createReservation is called
BookSubmit ==
  /\ currentStep = 3
  /\ ~bookSubmitting
  /\ bookSubmitting' = TRUE
  /\ reservations' = Append(reservations, [date |-> selectedDate, time_slot |-> selectedTimeSlot])
  /\ UNCHANGED <<now, currentStep, selectedDate, availableSlots, fullSlots, slotLoading,
                 selectedTimeSlot, loads, loadedFor, serverFull, requestCache, outsideBook>>

\* POST /reservations/ succeeds: createReservation clears the date's cache
\* entry, the page shows the confirmation
ReservationSucceeds ==
  /\ reservations # <<>>
  /\ requestCache' = clearCacheByPrefix(requestCache, slotsCacheKey(Head(reservations).date))
  /\ reservations' = Tail(reservations)
  /\ currentStep' = 4
  /\ bookSubmitting' = FALSE
  /\ UNCHANGED <<now, selectedDate, availableSlots, fullSlots, slotLoading, selectedTimeSlot,
                 loads, loadedFor, serverFull, outsideBook>>

\* POST /reservations/ fails: the error is shown
ReservationFails ==
  /\ reservations # <<>>
  /\ reservations' = Tail(reservations)
  /\ bookSubmitting' = FALSE
  /\ UNCHANGED <<now, currentStep, selectedDate, availableSlots, fullSlots, slotLoading,
                 selectedTimeSlot, loads, loadedFor, serverFull, requestCache, outsideBook>>

\* GET /available-slots/ is answered: fetchAvailableSlots caches the
\* response, loadSlots applies it, and the effect runs again when the
\* selected slot changed
LoadResponse ==
  \E i \in 1..Len(loads) :
    LET load == loads[i]
        response == AvailableSlotsResponse(load.date, serverFull[load.date])
        arrived == [Page EXCEPT
                      !.loads = RemoveAt(loads, i),
                      !.cache = writeCache(requestCache, slotsCacheKey(load.date), response,
                                           SLOT_CACHE_TTL_MS, now)]
        applied == ApplyResponse(arrived, load, response)
    IN  /\ SetPage(IF applied.selectedTimeSlot # selectedTimeSlot
                   THEN RunEffect(applied, selectedDate, now)
                   ELSE applied)
        /\ UNCHANGED <<now, currentStep, selectedDate, bookSubmitting, reservations,
                       serverFull, outsideBook>>

\* GET /available-slots/ fails: the error is shown and the loading flag reset
LoadFails ==
  \E i \in 1..Len(loads) :
    /\ loads' = RemoveAt(loads, i)
    /\ slotLoading' = FALSE
    /\ UNCHANGED <<now, currentStep, selectedDate, availableSlots, fullSlots,
                   selectedTimeSlot, loadedFor, bookSubmitting, reservations, serverFull,
                   requestCache, outsideBook>>

\* another customer takes the last table of a slot
ServerSlotFills ==
  \E date \in Dates, slot \in Slots :
    /\ slot \notin serverFull[date]
    /\ Cardinality({pair \in Dates \X Slots : pair[2] \in serverFull[pair[1]]}) < MaxServerFills
    /\ serverFull' = [serverFull EXCEPT ![date] = @ \cup {slot}]
    /\ UNCHANGED <<now, currentStep, selectedDate, availableSlots, fullSlots, slotLoading,
                   selectedTimeSlot, loads, loadedFor, bookSubmitting, reservations,
                   requestCache, outsideBook>>

\* Date.now() advances
BookTick ==
  /\ now < MaxBookTicks * BookTickMs
  /\ now' = now + BookTickMs
  /\ UNCHANGED <<bookVars, requestCache, outsideBook>>

BookNext ==
  \/ BookMount
  \/ BookSetDate
  \/ BookStepOneNext
  \/ BookSelectSlot
  \/ BookStepTwoNext
  \/ BookBack
  \/ BookSubmit
  \/ ReservationSucceeds
  \/ ReservationFails
  \/ LoadResponse
  \/ LoadFails
  \/ ServerSlotFills
  \/ BookTick

SpecBook == BookInit /\ [][BookNext]_vars

\* C3: createReservation is only called with a slot that the response loaded
\* last for the selected date lists as available and not as full; a full slot
\* cannot be selected.
C3_SubmitsOnlyAvailableSlot ==
  /\ [][Len(reservations') > Len(reservations) =>
          LET payload == reservations'[Len(reservations')]
              response == loadedFor[payload.date]
          IN  /\ response # NULL
              /\ payload.time_slot \in available_slots(response)
              /\ payload.time_slot \notin full_slots(response)
       ]_vars
  /\ [][selectedTimeSlot' # selectedTimeSlot /\ selectedTimeSlot' # NoSlot
          => selectedTimeSlot' \notin fullSlots
       ]_vars


\* the form stands at the submit step, nothing is being loaded or submitted,
\* and the selected slot is full on the selected date, listed as full by the
\* response loaded last for that date, and shown as full
C3_Witness ==
  /\ currentStep = 3
  /\ ~bookSubmitting
  /\ loads = <<>>
  /\ reservations = <<>>
  /\ selectedTimeSlot # NoSlot
  /\ selectedTimeSlot \in serverFull[selectedDate]
  /\ loadedFor[selectedDate] # NULL
  /\ selectedTimeSlot \in full_slots(loadedFor[selectedDate])
  /\ selectedTimeSlot \in fullSlots

----------------------------------------------------------------------------
(* The staff dashboard under the AuthProvider's session bootstrap *)

DashInit == AuthInit

\* one run of the dashboard effect with the given exit
ApplyDashboardEffect(outcome) ==
  /\ dashEffect' = [runs |-> dashEffect.runs + 1, outcome |-> outcome]
  /\ toast' = IF outcome = "home" THEN Toast_StaffRequired ELSE toast
  /\ routerPath' = CASE outcome = "login" -> Str_login_next_admin_dashboard
                     [] outcome = "home"  -> Str_home
                     [] OTHER             -> routerPath

\* the render that follows a change of the auth state: the effect runs again
\* when the page is mounted and one of its dependencies changed
DashboardRender(loading, usr) ==
  IF dashMounted /\ DashboardDeps(loading, usr) # DashboardDeps(authLoading, authUser)
    THEN ApplyDashboardEffect(DashboardEffect(loading, usr))
    ELSE UNCHANGED <<dashEffect, toast, routerPath>>

DashWithinBound == dashEffect.runs < MaxDashEffects

\* the mount effect of AuthProvider: bootstrapAuth up to its first await
DashBootstrapAuth ==
  /\ DashWithinBound
  /\ bootstrap.pc = "start"
  /\ IF ~Truthy(getAccessToken)
       THEN /\ authUser' = NoUser
            /\ bootstrap' = [pc |-> "finishing", token |-> getAccessToken]
       ELSE /\ authUser' = IF getStoredUser # NULL THEN StoredUser(localStorage[USER_KEY])
                           ELSE authUser
            /\ bootstrap' = [pc |-> "fetching", token |-> getAccessToken]
  /\ authLoading' = authLoading
  /\ DashboardRender(authLoading', authUser')
  /\ UNCHANGED <<now, authVars, dashMounted, outsideDash>>

\* refreshProfile after fetchCurrentUser resolved
DashProfileFetched ==
  \E profile \in Users :
    /\ DashWithinBound
    /\ bootstrap.pc = "fetching"
    /\ IF Truthy(getRefreshToken)
         THEN setAuthSession(bootstrap.token, getRefreshToken, profile)
         ELSE UNCHANGED authVars
    /\ authUser' = profile
    /\ bootstrap' = [bootstrap EXCEPT !.pc = "finishing"]
    /\ authLoading' = authLoading
    /\ DashboardRender(authLoading', authUser')
    /\ UNCHANGED <<now, dashMounted, outsideDash>>

\* refreshProfile after fetchCurrentUser rejected
DashProfileFetchFailed ==
  /\ DashWithinBound
  /\ bootstrap.pc = "fetching"
  /\ clearAuthSession
  /\ authUser' = NoUser
  /\ bootstrap' = [bootstrap EXCEPT !.pc = "finishing"]
  /\ authLoading' = authLoading
  /\ DashboardRender(authLoading', authUser')
  /\ UNCHANGED <<now, dashMounted, outsideDash>>

\* bootstrapAuth after await refreshProfile(): setLoading(false)
DashBootstrapDone ==
  /\ DashWithinBound
  /\ bootstrap.pc = "finishing"
  /\ authLoading' = FALSE
  /\ authUser' = authUser
  /\ bootstrap' = [bootstrap EXCEPT !.pc = "done"]
  /\ DashboardRender(authLoading', authUser')
  /\ UNCHANGED <<now, authVars, dashMounted, outsideDash>>

\* login or register on their own pages, after the request resolved
DashLogin ==
  \E session \in Users :
    /\ DashWithinBound
    /\ ~dashMounted
    /\ bootstrap.pc # "start"
    /\ setAuthSession(LoginAccess, LoginRefresh, session)
    /\ authUser' = session
    /\ authLoading' = authLoading
    /\ DashboardRender(authLoading', authUser')
    /\ UNCHANGED <<now, bootstrap, dashMounted, outsideDash>>

\* logout, from its finally block on
DashLogout ==
  /\ DashWithinBound
  /\ bootstrap.pc # "start"
  /\ clearAuthSession
  /\ authUser' = NoUser
  /\ authLoading' = authLoading
  /\ DashboardRender(authLoading', authUser')
  /\ UNCHANGED <<now, bootstrap, dashMounted, outsideDash>>

\* the dashboard page is shown: its effect runs once whatever the auth state is
DashMount ==
  /\ DashWithinBound
  /\ ~dashMounted
  /\ dashMounted' = TRUE
  /\ ApplyDashboardEffect(DashboardEffect(authLoading, authUser))
  /\ UNCHANGED <<now, authVars, authUser, authLoading, bootstrap, outsideDash>>

\* the router leaves the dashboard page
DashUnmount ==
  /\ dashMounted
  /\ dashMounted' = FALSE
  /\ UNCHANGED <<now, authVars, authUser, authLoading, bootstrap, dashEffect, toast,
                 routerPath, outsideDash>>

\* a full page load: the React state starts over, the stored session stays
DashReload ==
  /\ bootstrap.pc # "start"
  /\ authUser' = NoUser
  /\ authLoading' = TRUE
  /\ bootstrap' = BootstrapStart
  /\ dashMounted' = FALSE
  /\ UNCHANGED <<now, authVars, dashEffect, toast, routerPath, outsideDash>>

DashNext ==
  \/ DashBootstrapAuth
  \/ DashProfileFetched
  \/ DashProfileFetchFailed
  \/ DashBootstrapDone
  \/ DashLogin
  \/ DashLogout
  \/ DashMount
  \/ DashUnmount
  \/ DashReload

SpecDash == DashInit /\ [][DashNext]_vars

\* C11: fetchAnalytics is called only by an effect run that sees a user with
\* is_staff true; a run that sees loading finished and nobody signed in pushes
\* /login?next=/admin-dashboard, one that sees loading finished and a user who
\* is not staff shows 'Staff access required.' and pushes /, neither calls
\* fetchAnalytics; and while the page is mounted with loading finished the
\* last run of the effect is the one for the present user.
C11_DashboardStaffOnly ==
  /\ [][dashEffect'.runs # dashEffect.runs =>
          /\ dashEffect'.outcome = "fetch" => authUser' # NoUser /\ authUser'.is_staff = "t"
          /\ (~authLoading' /\ authUser' = NoUser) =>
               /\ dashEffect'.outcome = "login"
               /\ routerPath' = <<"/", "l", "o", "g", "i", "n", "?", "n", "e", "x", "t", "=",
                                  "/", "a", "d", "m", "i", "n", "-", "d", "a", "s", "h", "b",
                                  "o", "a", "r", "d">>
          /\ (~authLoading' /\ authUser' # NoUser /\ authUser'.is_staff # "t") =>
               /\ dashEffect'.outcome = "home"
               /\ routerPath' = <<"/">>
               /\ toast' = "Staff access required."
      ]_vars
  /\ [](dashMounted /\ ~authLoading =>
          /\ authUser = NoUser => dashEffect.outcome = "login"
          /\ (authUser # NoUser /\ authUser.is_staff # "t") => dashEffect.outcome = "home"
          /\ dashEffect.outcome = "fetch" => authUser # NoUser /\ authUser.is_staff = "t")

\* a customer's stored session was bootstrapped on the dashboard page and the
\* effect sent them home
C11_Witness ==
  /\ dashMounted
  /\ bootstrap.pc = "done"
  /\ ~authLoading
  /\ authUser # NoUser
  /\ authUser.is_staff = "f"
  /\ dashEffect.outcome = "home"
  /\ toast = Toast_StaffRequired
  /\ routerPath = Str_home

----------------------------------------------------------------------------
(* The theme provider: page loads, its mount effect, setTheme and toggleTheme *)

ThemeInit == AuthInit

\* setTheme(nextTheme): the state, the data-theme attribute and the entry
setTheme(nextTheme) ==
  /\ theme' = nextTheme
  /\ dataTheme' = nextTheme
  /\ themeStorage' = nextTheme

ThemeCall(op, arg) ==
  lastThemeCall' = [n |-> lastThemeCall.n + 1, op |-> op, arg |-> arg, before |-> theme]

\* a page load: the entry found is the one left behind, or none, or a value
\* this provider never writes; the inline script sets data-theme from it and
\* the first render has the useState default
ThemePageLoad ==
  \E found \in {themeStorage, NULL, Str_system} :
    /\ lastThemeCall.n < MaxThemeCalls
    /\ themeStorage' = found
    /\ dataTheme' = StoredThemeMode(found)
    /\ theme' = Str_dark
    /\ themeMounted' = FALSE
    /\ UNCHANGED <<now, lastThemeCall, outsideTheme>>

\* the mount effect of ThemeProvider
ThemeMountEffect ==
  /\ lastThemeCall.n < MaxThemeCalls
  /\ ~themeMounted
  /\ themeMounted' = TRUE
  /\ theme' = StoredThemeMode(themeStorage)
  /\ dataTheme' = StoredThemeMode(themeStorage)
  /\ ThemeCall("mount", StoredThemeMode(themeStorage))
  /\ UNCHANGED <<now, themeStorage, outsideTheme>>

\* useTheme().setTheme(nextTheme)
ThemeSetTheme ==
  \E nextTheme \in {Str_dark, Str_light} :
    /\ lastThemeCall.n < MaxThemeCalls
    /\ themeMounted
    /\ setTheme(nextTheme)
    /\ ThemeCall("setTheme", nextTheme)
    /\ UNCHANGED <<now, themeMounted, outsideTheme>>

\* useTheme().toggleTheme()
ThemeToggleTheme ==
  /\ lastThemeCall.n < MaxThemeCalls
  /\ themeMounted
  /\ setTheme(ToggledTheme(theme))
  /\ ThemeCall("toggleTheme", ToggledTheme(theme))
  /\ UNCHANGED <<now, themeMounted, outsideTheme>>

ThemeNext ==
  \/ ThemePageLoad
  \/ ThemeMountEffect
  \/ ThemeSetTheme
  \/ ThemeToggleTheme

SpecTheme == ThemeInit /\ [][ThemeNext]_vars

\* C13: after setTheme(t) the theme state, data-theme and the calmtable-theme
\* entry are all t; after toggleTheme they are all the other theme than
\* before, and a toggle that follows a toggle brings back the theme from
\* before the first; after the mount effect the theme is 'light' if the
\* entry is 'light' and 'dark' for any other or no entry.
C13_ThemePersists ==
  [][lastThemeCall'.n # lastThemeCall.n =>
       /\ lastThemeCall'.op = "setTheme" =>
            /\ theme' = lastThemeCall'.arg
            /\ dataTheme' = lastThemeCall'.arg
            /\ themeStorage' = lastThemeCall'.arg
       /\ lastThemeCall'.op = "toggleTheme" =>
            /\ theme = <<"d", "a", "r", "k">> => theme' = <<"l", "i", "g", "h", "t">>
            /\ theme = <<"l", "i", "g", "h", "t">> => theme' = <<"d", "a", "r", "k">>
            /\ dataTheme' = theme'
            /\ themeStorage' = theme'
            /\ lastThemeCall.op = "toggleTheme" => theme' = lastThemeCall.before
       /\ lastThemeCall'.op = "mount" =>
            /\ themeStorage = <<"l", "i", "g", "h", "t">> => theme' = <<"l", "i", "g", "h", "t">>
            /\ themeStorage # <<"l", "i", "g", "h", "t">> => theme' = <<"d", "a", "r", "k">>
            /\ themeStorage' = themeStorage
    ]_vars

\* the light theme was restored on mount and toggled twice since
C13_Witness ==
  /\ lastThemeCall.n = 3
  /\ lastThemeCall.op = "toggleTheme"
  /\ lastThemeCall.before = Str_dark
  /\ theme = Str_light
  /\ dataTheme = Str_light
  /\ themeStorage = Str_light

----------------------------------------------------------------------------
(* Container start-up *)

EntrypointInit == AuthInit

\* the container starts the script with some environment
EntrypointStart ==
  \E version \in {1, 2}, useSqlite \in EnvironmentValues, createSuperuser \in EnvironmentValues :
    /\ entrypoint.pc = "unstarted"
    /\ LET environment == [USE_SQLITE |-> useSqlite, CREATE_SUPERUSER |-> createSuperuser]
       IN  entrypoint' = [NotStarted EXCEPT
             !.version = version,
             !.environment = environment,
             !.pc = IF WaitsForPostgres(environment) THEN "wait"
                    ELSE EntrypointSteps(version, environment)[1]]
    /\ UNCHANGED <<now, outsideEntrypoint>>

\* socket.create_connection succeeds: break, the Python script ends with status 0
EntrypointConnects ==
  /\ entrypoint.pc = "wait"
  /\ entrypoint' = [entrypoint EXCEPT
       !.attempts = @ + 1,
       !.connected = TRUE,
       !.pc = EntrypointSteps(entrypoint.version, entrypoint.environment)[1]]
  /\ UNCHANGED <<now, outsideEntrypoint>>

\* socket.create_connection raises OSError: sleep one second; after the last
\* attempt the for-else raises SystemExit and the shell exits
EntrypointConnectFails ==
  /\ entrypoint.pc = "wait"
  /\ entrypoint' = [entrypoint EXCEPT
       !.attempts = @ + 1,
       !.sleeps = @ + 1,
       !.failed = entrypoint.attempts + 1 = WAIT_ATTEMPTS,
       !.pc = IF entrypoint.attempts + 1 = WAIT_ATTEMPTS THEN "exited" ELSE "wait"]
  /\ UNCHANGED <<now, outsideEntrypoint>>

EntrypointAtCommand ==
  /\ entrypoint.pc \in {"migrate", "collectstatic", "seed_data", "create_superuser"}
  /\ entrypoint.pc =
       EntrypointSteps(entrypoint.version, entrypoint.environment)[Len(entrypoint.ran) + 1]

\* the command of the present line ends with status 0
EntrypointCommandSucceeds ==
  /\ EntrypointAtCommand
  /\ entrypoint' = [entrypoint EXCEPT
       !.ran = Append(@, entrypoint.pc),
       !.pc = EntrypointSteps(entrypoint.version, entrypoint.environment)[Len(entrypoint.ran) + 2]]
  /\ UNCHANGED <<now, outsideEntrypoint>>

\* the command of the present line ends with another status
EntrypointCommandFails ==
  /\ EntrypointAtCommand
  /\ entrypoint' = [entrypoint EXCEPT
       !.failed = TRUE,
       !.pc = AfterFailure(EntrypointSteps(entrypoint.version, entrypoint.environment),
                           Len(entrypoint.ran))]
  /\ UNCHANGED <<now, outsideEntrypoint>>

\* exec "$@": the server command replaces the shell
EntrypointExec ==
  /\ entrypoint.pc = "exec"
  /\ entrypoint' = [entrypoint EXCEPT !.pc = "server"]
  /\ UNCHANGED <<now, outsideEntrypoint>>

\* the container is started again
EntrypointRestart ==
  /\ entrypoint.pc \in {"exited", "server"}
  /\ entrypoint' = NotStarted
  /\ UNCHANGED <<now, outsideEntrypoint>>

EntrypointNext ==
  \/ EntrypointStart
  \/ EntrypointConnects
  \/ EntrypointConnectFails
  \/ EntrypointCommandSucceeds
  \/ EntrypointCommandFails
  \/ EntrypointExec
  \/ EntrypointRestart

SpecEntrypoint == EntrypointInit /\ [][EntrypointNext]_vars

PastTheWait == entrypoint.pc \notin {"unstarted", "wait"} /\ ~(entrypoint.pc = "exited" /\ entrypoint.ran = <<>>)

\* migrations, then seed data, then the server; the server only after both
\* ran; at most 60 connection attempts, a second of sleep after each failed
\* one; after a failure the script has exited and stays so
StartupInOrder ==
  /\ [](/\ LET core == SelectSeq(entrypoint.ran, LAMBDA c : c \in {"migrate", "seed_data"})
           IN  core \in {<<>>, <<"migrate">>, <<"migrate", "seed_data">>}
        /\ entrypoint.pc \in {"exec", "server"} =>
             /\ \E i, j \in DOMAIN entrypoint.ran :
                  i < j /\ entrypoint.ran[i] = "migrate" /\ entrypoint.ran[j] = "seed_data"
             /\ ~entrypoint.failed
        /\ entrypoint.attempts <= 60
        /\ entrypoint.sleeps = entrypoint.attempts - (IF entrypoint.connected THEN 1 ELSE 0)
        /\ (entrypoint.attempts = 60 /\ ~entrypoint.connected) => entrypoint.pc = "exited"
        /\ entrypoint.failed => entrypoint.pc = "exited"
        /\ (entrypoint.ran # <<>> /\ entrypoint.attempts > 0) => entrypoint.connected)
  /\ [][entrypoint.pc = "exited" => entrypoint'.pc \in {"exited", "unstarted"}]_vars

\* C14 as stated: the steps run in order; whenever USE_SQLITE is not 'True'
\* nothing runs before PostgreSQL accepted a connection
C14_Original ==
  /\ StartupInOrder
  /\ [](entrypoint.environment.USE_SQLITE # <<"T", "r", "u", "e">> /\ PastTheWait
          => entrypoint.connected)

\* C14: the steps run in order; whenever USE_SQLITE is set to a non-empty
\* value other than 'True' nothing runs before PostgreSQL accepted a
\* connection, and when it is unset, empty or 'True' no connection is tried
C14_StartupWaitsWhenConfigured ==
  /\ StartupInOrder
  /\ [](entrypoint.pc # "unstarted" =>
          IF entrypoint.environment.USE_SQLITE \in {NULL, <<>>, <<"T", "r", "u", "e">>}
          THEN entrypoint.attempts = 0
          ELSE PastTheWait => entrypoint.connected)

\* the second version started the server after PostgreSQL refused 59 times
C14_Witness ==
  /\ entrypoint.pc = "server"
  /\ entrypoint.version = 2
  /\ entrypoint.environment.USE_SQLITE = Str_False
  /\ entrypoint.attempts = 60
  /\ entrypoint.connected
  /\ Len(entrypoint.ran) = 4

====
